---- MODULE Spec2Model ----
(***************************************************************************)
(* The persistent B-tree of lib/src/idx/btree/mod.rs: BTree::search,       *)
(* insert, delete and statistics over a node store and a key-value         *)
(* transaction.  Keys are natural numbers ordered by <, which stands for   *)
(* the lexicographic order of the byte-string keys; payloads are positive  *)
(* naturals, so that the placeholder payload 0 of delete case 2c can be    *)
(* told apart from every inserted payload.                                 *)
(*                                                                         *)
(* One tree operation is one action.  An operation is computed by          *)
(* operators that thread a context record through the store calls of the   *)
(* code, in the order in which the code makes them; a failed call (the ?   *)
(* operator of the code) or a panic stops the operation at that call.      *)
(***************************************************************************)
EXTENDS Integers, Sequences, FiniteSets, TLC

\* Bounds of the model
MaxDegree == 2      \* minimum_degree of the fill, seq and rnd drivers ranges over 2..MaxDegree
MaxKey == 5         \* keys of the free driver are 1..MaxKey
MaxOps == 6         \* number of operations of the free driver
MaxFill == 10       \* number of insertions of the fill driver
MaxGone == 3        \* number of deletions of the fill driver in any order
MaxSeq == 12        \* number of insertions of the seq driver
MaxCache == 2       \* the clrs driver also uses the store capacities 1..MaxCache
MaxFail == 4        \* the clrs driver makes one of the first MaxFail store calls fail
MaxAppend == 2      \* the nodes given to Node::append have keys of 1..MaxAppend
MaxExprs == 2       \* an IfelseStatement has at most MaxExprs pairs of IF and THEN
MaxLimit == 12      \* a limit expression computes to an integer of -MaxLimit..MaxLimit

\* Option::None, for NodeId and Payload alike
None == -1

\* BTreeNodeStore::new(KeyProvider::Debug, BTreeStoreType::Write, 20)
CacheSize == 20

\* BTree::new(State::new(3)) of the CLRS tests, State::new(5) and the 100
\* samples of test_btree_fst_small_order_sequential_insertions
ClrsDegree == 3
FstDegree == 5
FstSamples == 100

VARIABLES
  minimum_degree,   \* State.minimum_degree
  root,             \* State.root (None or a NodeId)
  next_node_id,     \* State.next_node_id
  updated,          \* BTree.updated
  tx,               \* the records of the backing transaction: NodeId -> Node
  status,           \* "ok", or the error (or "panic") that ended the last call
  last,             \* the last operation called and what it returned
  stored,           \* history: key -> payload of the latest insert not followed by a delete
  mode,             \* the driver: "free", "fill", "seq", "clrs" ("reopened"), "fst", "rnd"
  count,            \* free, clrs: operations done; fill, seq, fst, rnd: keys inserted
  gone,             \* fill, seq: keys the driver has deleted
  obs,              \* what the store of the last call has seen
  run               \* a call outside the tree: its inputs, where it stands, its result

\* the variables of the tree and of its drivers
tree == <<minimum_degree, root, next_node_id, updated, tx, status, last, stored,
          mode, count, gone, obs>>

vars == <<tree, run>>

----------------------------------------------------------------------------
(* Small helpers on sets and sequences                                      *)

SetMin(S) == CHOOSE x \in S : \A y \in S : x <= y
SetMax(S) == CHOOSE x \in S : \A y \in S : x >= y

\* Vec::insert(i, x), Vec::remove(i), with 0-based i
VecInsert(v, i, x) == SubSeq(v, 1, i) \o <<x>> \o SubSeq(v, i + 1, Len(v))
VecRemove(v, i) == SubSeq(v, 1, i) \o SubSeq(v, i + 2, Len(v))

----------------------------------------------------------------------------
(* BKeys (idx/bkeys.rs): the ordered key -> payload container of a node,    *)
(* a function whose domain is the set of keys.                              *)

BKeys_default == <<>>

BKeys_with_key_val(key, payload) == [x \in {key} |-> payload]

BKeys_len(keys) == Cardinality(DOMAIN keys)

BKeys_get(keys, key) == IF key \in DOMAIN keys THEN keys[key] ELSE None

BKeys_insert(keys, key, payload) ==
  [x \in (DOMAIN keys) \cup {key} |-> IF x = key THEN payload ELSE keys[x]]

BKeys_remove(keys, key) == [x \in (DOMAIN keys) \ {key} |-> keys[x]]

BKeys_get_first_key(keys) == IF DOMAIN keys = {} THEN None ELSE SetMin(DOMAIN keys)

BKeys_get_last_key(keys) == IF DOMAIN keys = {} THEN None ELSE SetMax(DOMAIN keys)

\* the key at position idx (0-based) of the ordered keys
BKeys_get_key(keys, idx) ==
  IF idx < 0 \/ idx >= Cardinality(DOMAIN keys) THEN None
  ELSE CHOOSE x \in DOMAIN keys : Cardinality({y \in DOMAIN keys : y < x}) = idx

\* The index of the child to descend into.  For a key that is not in keys
\* this is the smallest i with key < keys[i] (or |keys|).  For a key that is
\* keys[j] it is j: deleted_from_internal uses the result as the index of the
\* left child of the key (mod.rs:417-421), and test_btree_clrs_deletion_test
\* (mod.rs:1079-1113) passes only with this value.
get_child_idx(keys, searched_key) ==
  Cardinality({x \in DOMAIN keys : x < searched_key})

\* get_child_idx in the words of the specification: the smallest i such
\* that searched_key < keys[i], else |keys|.  It is the value above for a
\* key that is not in keys, and one more for a key that is.
get_child_idx_greater(keys, searched_key) ==
  Cardinality({x \in DOMAIN keys : x <= searched_key})

\* (left, median, right): the median is the key at position (n-1) div 2
split_keys(keys) ==
  LET n == Cardinality(DOMAIN keys)
      median_idx == (n - 1) \div 2
      median_key == BKeys_get_key(keys, median_idx)
  IN [median_idx |-> median_idx,
      median_key |-> median_key,
      median_payload |-> keys[median_key],
      left |-> [x \in {y \in DOMAIN keys : y < median_key} |-> keys[x]],
      right |-> [x \in {y \in DOMAIN keys : y > median_key} |-> keys[x]]]

BKeys_append(keys, other) ==
  [x \in (DOMAIN keys) \cup (DOMAIN other) |->
     IF x \in DOMAIN other THEN other[x] ELSE keys[x]]

----------------------------------------------------------------------------
(* Node                                                                     *)

Internal(keys, children) == [leaf |-> FALSE, keys |-> keys, children |-> children]
Leaf(keys) == [leaf |-> TRUE, keys |-> keys, children |-> <<>>]

\* append that takes the key and the keys of node before it looks at the
\* kind of node
Node_append_anyway(self, key, payload, node) ==
  [ok |-> self.leaf = node.leaf,
   node |-> IF self.leaf
            THEN Leaf(BKeys_append(BKeys_insert(self.keys, key, payload), node.keys))
            ELSE Internal(BKeys_append(BKeys_insert(self.keys, key, payload), node.keys),
                          self.children \o node.children)]

\* Node::append; ok is FALSE for operands of different kinds (CorruptedIndex),
\* node is self after the call
Node_append(self, key, payload, node) ==
  IF self.leaf # node.leaf THEN [ok |-> FALSE, node |-> self]
  ELSE [ok |-> TRUE,
        node |-> IF self.leaf
                 THEN Leaf(BKeys_append(BKeys_insert(self.keys, key, payload), node.keys))
                 ELSE Internal(BKeys_append(BKeys_insert(self.keys, key, payload), node.keys),
                               self.children \o node.children)]

----------------------------------------------------------------------------
(* The context of one operation: the BTree fields it may change, the store, *)
(* the transaction, the error that stopped it, and the values handed from   *)
(* one call to the next.                                                    *)

Ok(s) == s.err = "ok"
Fail(s, e) == [s EXCEPT !.err = e]

\* the ? operator: the call goes on with the result of a step that did not fail
Then(s, K(_)) == IF Ok(s) THEN K(s) ELSE s

NewStore(r, n, u, t) ==
  [root |-> r, next_node_id |-> n, updated |-> u, tx |-> t,
   kind |-> "Write", cap |-> CacheSize,
   cache |-> <<>>, lru |-> <<>>, dirty |-> {}, removed |-> {}, out |-> {},
   calls |-> 0, failat |-> 0, peak |-> 0, twice |-> FALSE, stray |-> FALSE,
   mem |-> <<>>, wrote |-> {}, flushed |-> {}, dropped |-> {},
   trace |-> <<>>, most |-> 0, heads |-> <<>>, steps |-> <<>>, splits |-> <<>>,
   leafn |-> None, case |-> "", path |-> <<>>, high |-> 0,
   err |-> "ok", got |-> Leaf(<<>>), ret |-> None, next |-> <<>>,
   keys |-> <<>>, children |-> <<>>, node_update |-> FALSE, deleted_payload |-> None,
   stats |-> [keys_count |-> 0, max_depth |-> 0, nodes_count |-> 0, err |-> "ok"]]

----------------------------------------------------------------------------
(* BTreeNodeStore (idx/btree/store.rs).  kind is Write, Read or Traversal, *)
(* cap the capacity of the LRU.  The store counts its calls (calls), and   *)
(* the call number failat, when there is one, fails with the error Tx of   *)
(* the backend.  peak is the largest number of nodes that were checked out *)
(* together, twice tells a get_node of a node that was checked out, stray  *)
(* a node handed back that was not checked out, mem the content in which   *)
(* each node was last handed back, wrote the nodes written to the          *)
(* transaction by an eviction, flushed the nodes written and dropped the   *)
(* records deleted by finish.  trace lists the calls that did not fail, as  *)
(* <<call, node id, dirty>>, and most is the largest number of keys of a   *)
(* node given to new_node or set_node.                                     *)

\* a store of kind k and capacity c in which the call number n fails (0: none)
StoreOf(s, k, c, n) == [s EXCEPT !.kind = k, !.cap = c, !.failat = n]

\* one more call of the store, which is not made after a failure (the ? of
\* the code); it is the one that fails when failat says so
Call(s) ==
  IF ~Ok(s) THEN s
  ELSE [s EXCEPT !.calls = @ + 1, !.err = IF s.calls + 1 = s.failat THEN "Tx" ELSE @]

\* the call op of node_id has been made; node is the node it was given
Traced(s, op, node_id, dirty, node) ==
  [s EXCEPT !.trace = Append(@, <<op, node_id, dirty>>),
            !.most = IF BKeys_len(node.keys) > @ THEN BKeys_len(node.keys) ELSE @]

\* the content of the node id as the store would give it: the resident
\* node, or else the record
View(s) ==
  [id \in (DOMAIN s.tx) \cup (DOMAIN s.cache) |->
     IF id \in DOMAIN s.cache THEN s.cache[id] ELSE s.tx[id]]

\* node_id is checked out
CheckOut(s, node_id) ==
  [s EXCEPT !.out = @ \cup {node_id},
            !.peak = IF Cardinality(s.out \cup {node_id}) > @
                     THEN Cardinality(s.out \cup {node_id}) ELSE @]

\* node_id is handed back
HandBack(s, node_id) ==
  [s EXCEPT !.out = @ \ {node_id}, !.stray = @ \/ node_id \notin s.out]

\* the least recently used resident leaves the cache; a dirty one is written
Evict(s) ==
  IF Len(s.lru) <= s.cap THEN s
  ELSE LET id == Head(s.lru) IN
       [s EXCEPT !.lru = Tail(@),
                 !.cache = [x \in (DOMAIN @) \ {id} |-> @[x]],
                 !.dirty = @ \ {id},
                 !.wrote = IF id \in s.dirty THEN @ \cup {id} ELSE @,
                 !.tx = IF id \in s.dirty
                        THEN [x \in (DOMAIN @) \cup {id} |-> IF x = id THEN s.cache[id] ELSE @[x]]
                        ELSE @]

\* the fetched node is in s.got; Node::read fails CorruptedIndex on no record
get_node(s, node_id) ==
  Then(Call(s), LAMBDA c :
    IF node_id \in c.out THEN [Fail(c, "CorruptedIndex") EXCEPT !.twice = TRUE]
    ELSE IF node_id \in DOMAIN c.cache
      THEN [CheckOut(Traced(c, "get", node_id, FALSE, Leaf(<<>>)), node_id) EXCEPT
              !.got = c.cache[node_id],
              !.cache = [x \in (DOMAIN @) \ {node_id} |-> @[x]],
              !.lru = SelectSeq(@, LAMBDA x : x # node_id)]
    ELSE IF node_id \in DOMAIN c.tx
      THEN [CheckOut(Traced(c, "get", node_id, FALSE, Leaf(<<>>)), node_id) EXCEPT
              !.got = c.tx[node_id]]
    ELSE Fail(c, "CorruptedIndex"))

\* a Traversal store keeps nothing; a Read store refuses a dirty node
set_node(s, node_id, node, dirty) ==
  Then(Call(s), LAMBDA c :
    IF c.kind = "Traversal" THEN HandBack(Traced(c, "set", node_id, dirty, node), node_id)
    ELSE IF c.kind = "Read" /\ dirty THEN Fail(c, "CorruptedIndex")
    ELSE Evict([HandBack(Traced(c, "set", node_id, dirty, node), node_id) EXCEPT
                  !.mem = [x \in (DOMAIN @) \cup {node_id} |->
                             IF x = node_id THEN node ELSE @[x]],
                  !.cache = [x \in (DOMAIN @) \cup {node_id} |->
                               IF x = node_id THEN node ELSE @[x]],
                  !.lru = SelectSeq(@, LAMBDA x : x # node_id) \o <<node_id>>,
                  !.dirty = IF dirty THEN @ \cup {node_id} ELSE @]))

new_node(s, id, node) ==
  Then(Call(s), LAMBDA c : [CheckOut(Traced(c, "new", id, FALSE, node), id) EXCEPT !.got = node])

remove_node(s, node_id) ==
  Then(Call(s), LAMBDA c :
    [HandBack(Traced(c, "remove", node_id, FALSE, Leaf(<<>>)), node_id) EXCEPT
       !.cache = [x \in (DOMAIN @) \ {node_id} |-> @[x]],
       !.lru = SelectSeq(@, LAMBDA x : x # node_id),
       !.dirty = @ \ {node_id},
       !.mem = [x \in (DOMAIN @) \ {node_id} |-> @[x]],
       !.removed = @ \cup {node_id}])

\* the dirty residents are written, then the removed records are deleted
finish(s) ==
  IF ~Ok(s) THEN s
  ELSE LET written == [x \in (DOMAIN s.tx) \cup (s.dirty \cap DOMAIN s.cache) |->
                         IF x \in s.dirty /\ x \in DOMAIN s.cache THEN s.cache[x] ELSE s.tx[x]]
       IN [s EXCEPT !.tx = [x \in (DOMAIN written) \ s.removed |-> written[x]],
                    !.flushed = s.dirty \cap DOMAIN s.cache, !.dropped = s.removed,
                    !.dirty = {}, !.removed = {}, !.cache = <<>>, !.lru = <<>>]

----------------------------------------------------------------------------
(* What a call has done, kept for the properties of its steps: heads has   *)
(* the nodes the loop of delete fetched, steps the steps of CLRS cases 2   *)
(* and 3 it made, splits the calls of split_child, leafn the number of     *)
(* keys of the leaf before insert_non_full put the key into it, path the   *)
(* node of each iteration of the loop of search, insert_non_full or delete *)
(* with the number of store calls made when the iteration had its node.    *)

\* the children of a node as the store holds them; a child that was removed
\* or has no record stands as a leaf without keys
Kids(s, children) ==
  [i \in 1..Len(children) |->
     IF children[i] \in DOMAIN View(s) /\ children[i] \notin s.removed
     THEN View(s)[children[i]] ELSE Leaf(<<>>)]

\* the calls of the store made after the context a and up to the context b
CallsBetween(a, b) == SubSeq(b.trace, Len(a.trace) + 1, Len(b.trace))

\* the (key, payload) pairs in the order child 0, key 0, child 1, key 1, ...
RECURSIVE PairsFrom(_, _, _)
RECURSIVE PairsWeave(_, _, _, _)
PairsFrom(t, node_id, fuel) ==
  IF fuel = 0 \/ node_id \notin DOMAIN t THEN <<>>
  ELSE PairsWeave(t, t[node_id], 0, fuel)

PairsWeave(t, node, i, fuel) ==
  IF i >= Len(node.children) /\ i >= BKeys_len(node.keys) THEN <<>>
  ELSE (IF i < Len(node.children) THEN PairsFrom(t, node.children[i + 1], fuel - 1) ELSE <<>>)
       \o (IF i < BKeys_len(node.keys)
           THEN <<<<BKeys_get_key(node.keys, i), node.keys[BKeys_get_key(node.keys, i)]>>>>
           ELSE <<>>)
       \o PairsWeave(t, node, i + 1, fuel)

\* a loop of search, insert_non_full or delete has fetched the node node_id
\* at its head, after the calls of the store made so far
Onward(s, node_id) == [s EXCEPT !.path = Append(@, <<node_id, Len(s.trace)>>)]

\* the loop of delete has fetched node as the node node_id
Headed(s, node_id, node, is_main_key, key_to_delete) ==
  [s EXCEPT !.heads = Append(@, [id |-> node_id, node |-> node, is_root |-> node_id = s.root,
                                 is_main_key |-> is_main_key, key |-> key_to_delete])]

\* the step a call has taken is named
Tagged(s, case) == [s EXCEPT !.case = case]

\* the step of case 2 or 3 that led from the context a, in which node was
\* fetched, to the context b
Stepped(a, b, node_id, node, is_main_key, key_to_delete) ==
  [b EXCEPT !.steps = Append(@,
     [case |-> b.case, id |-> node_id, node |-> node, is_main_key |-> is_main_key,
      key |-> key_to_delete, after |-> Internal(b.keys, b.children), next |-> b.next,
      calls |-> CallsBetween(a, b),
      before |-> Kids(a, node.children), kids |-> Kids(b, node.children)])]

\* split_child has led from the context a to the context b
Split(a, b, parent_id, parent_node, idx, child_id, child_node) ==
  LET held == [id \in (DOMAIN View(a)) \cup {parent_id, child_id} |->
                 IF id = parent_id THEN parent_node
                 ELSE IF id = child_id THEN child_node ELSE View(a)[id]]
  IN [b EXCEPT !.splits = Append(@,
        [parent_id |-> parent_id, parent |-> parent_node, idx |-> idx,
         child_id |-> child_id, child |-> child_node, fresh |-> a.next_node_id,
         ret |-> b.next, next_node_id |-> b.next_node_id, root |-> b.root,
         calls |-> CallsBetween(a, b),
         left |-> View(b)[b.next[1]], right |-> View(b)[b.next[2]],
         parent_after |-> View(b)[parent_id],
         before |-> PairsFrom(held, parent_id, Cardinality(DOMAIN held) + 1),
         after |-> PairsFrom(View(b), parent_id, Cardinality(DOMAIN View(b)) + 1)])]

----------------------------------------------------------------------------
(* BTree                                                                    *)

\* full_size counting one key too many
full_size_even(t) == t * 2

full_size(t) == t * 2 - 1

\* new_node_id that does not move next_node_id on
new_node_id_again(s) == [s EXCEPT !.ret = s.next_node_id]

\* the new id is in s.ret
new_node_id(s) == [s EXCEPT !.ret = s.next_node_id, !.next_node_id = @ + 1]

RECURSIVE search_loop(_, _, _)
search_loop(s, node_id, searched_key) ==
  Then(get_node(s, node_id), LAMBDA s0 :
    LET current == s0.got
        s1 == Onward(s0, node_id) IN
    IF searched_key \in DOMAIN current.keys
      THEN [set_node(s1, node_id, current, FALSE) EXCEPT !.ret = current.keys[searched_key]]
    ELSE IF current.leaf
      THEN [set_node(s1, node_id, current, FALSE) EXCEPT !.ret = None]
    ELSE LET child_idx == get_child_idx(current.keys, searched_key) IN
         IF child_idx >= Len(current.children) THEN Fail(s1, "panic")
         ELSE Then(set_node(s1, node_id, current, FALSE), LAMBDA s2 :
                search_loop(s2, current.children[child_idx + 1], searched_key)))

\* search handing the root back as changed before it walks
search_touching(s, searched_key) ==
  IF s.root = None THEN [s EXCEPT !.ret = None]
  ELSE Then(get_node(s, s.root), LAMBDA s1 :
         search_loop(set_node(s1, s.root, s1.got, TRUE), s.root, searched_key))

\* the payload found, or None, is in s.ret
search(s, searched_key) ==
  IF s.root = None THEN [s EXCEPT !.ret = None]
  ELSE search_loop(s, s.root, searched_key)

\* split_leaf_node giving the upper keys to the left node
split_leaf_node_swapped(keys) ==
  LET r == split_keys(keys) IN
  [ok |-> TRUE, left |-> Leaf(r.right), right |-> Leaf(r.left),
   median_key |-> r.median_key, median_payload |-> r.median_payload]

split_leaf_node(keys) ==
  LET r == split_keys(keys) IN
  [ok |-> TRUE, left |-> Leaf(r.left), right |-> Leaf(r.right),
   median_key |-> r.median_key, median_payload |-> r.median_payload]

\* split_internal_node building its right node the way split_leaf_node does
split_internal_node_right_leaf(keys, left_children) ==
  LET r == split_keys(keys) IN
  [ok |-> r.median_idx + 1 <= Len(left_children),
   left |-> Internal(r.left, SubSeq(left_children, 1, r.median_idx + 1)),
   right |-> Leaf(r.right),
   median_key |-> r.median_key, median_payload |-> r.median_payload]

split_internal_node(keys, left_children) ==
  LET r == split_keys(keys) IN
  [ok |-> r.median_idx + 1 <= Len(left_children),       \* Vec::split_off panics beyond len
   left |-> Internal(r.left, SubSeq(left_children, 1, r.median_idx + 1)),
   right |-> Internal(r.right, SubSeq(left_children, r.median_idx + 2, Len(left_children))),
   median_key |-> r.median_key, median_payload |-> r.median_payload]

\* split_child handing the left node back only when the right one is made
split_child_with_late(s, parent_id, parent_node, idx, child_id, sp) ==
  IF ~sp.ok THEN Fail(s, "panic")
  ELSE Then(new_node_id(s), LAMBDA s1 :
    LET right_node_id == s1.ret
        keys == BKeys_insert(parent_node.keys, sp.median_key, sp.median_payload)
    IN IF ~parent_node.leaf /\ idx + 1 > Len(parent_node.children) THEN Fail(s1, "panic")
       ELSE
       LET parent == IF parent_node.leaf THEN Leaf(keys)
                     ELSE Internal(keys, VecInsert(parent_node.children, idx + 1, right_node_id))
       IN Then(new_node(new_node(s1, child_id, sp.left), right_node_id, sp.right), LAMBDA s2 :
          Then(set_node(set_node(s2, child_id, sp.left, TRUE), right_node_id, sp.right, TRUE),
               LAMBDA s3 :
          Then(set_node(s3, parent_id, parent, TRUE), LAMBDA s4 :
            [s4 EXCEPT !.next = <<child_id, right_node_id, sp.median_key>>]))))

\* split_child once the child's keys (and children) are split into sp
split_child_with(s, parent_id, parent_node, idx, child_id, sp) ==
  IF ~sp.ok THEN Fail(s, "panic")
  ELSE Then(new_node_id(s), LAMBDA s1 :
    LET right_node_id == s1.ret
        keys == BKeys_insert(parent_node.keys, sp.median_key, sp.median_payload)
    IN IF ~parent_node.leaf /\ idx + 1 > Len(parent_node.children) THEN Fail(s1, "panic")
       ELSE
       LET parent == IF parent_node.leaf THEN Leaf(keys)
                     ELSE Internal(keys, VecInsert(parent_node.children, idx + 1, right_node_id))
       IN Then(set_node(new_node(s1, child_id, sp.left), child_id, sp.left, TRUE), LAMBDA s2 :
          Then(set_node(new_node(s2, right_node_id, sp.right), right_node_id, sp.right, TRUE),
               LAMBDA s3 :
          Then(set_node(s3, parent_id, parent, TRUE), LAMBDA s4 :
            [s4 EXCEPT !.next = <<child_id, right_node_id, sp.median_key>>]))))

\* split_child splitting every child the way it splits a leaf
split_child_as_leaf(s, parent_id, parent_node, idx, child_id, child_node) ==
  split_child_with(s, parent_id, parent_node, idx, child_id, split_leaf_node(child_node.keys))

\* the SplitResult is in s.next: <<left_node_id, right_node_id, median_key>>
split_child(s, parent_id, parent_node, idx, child_id, child_node) ==
  Then(split_child_with(s, parent_id, parent_node, idx, child_id,
                        IF child_node.leaf THEN split_leaf_node(child_node.keys)
                        ELSE split_internal_node(child_node.keys, child_node.children)),
       LAMBDA r : Split(s, r, parent_id, parent_node, idx, child_id, child_node))

RECURSIVE insert_non_full(_, _, _, _, _)
insert_non_full(s, t, node_id, key, payload) ==
  Then(get_node(s, node_id), LAMBDA s0 :
    LET node == s0.got
        s1 == Onward(s0, node_id) IN
    IF node.leaf
      THEN [set_node(s1, node_id, Leaf(BKeys_insert(node.keys, key, payload)), TRUE)
              EXCEPT !.leafn = BKeys_len(node.keys)]
    ELSE IF key \in DOMAIN node.keys
      THEN set_node(s1, node_id,
                    Internal(BKeys_insert(node.keys, key, payload), node.children), TRUE)
    ELSE LET child_idx == get_child_idx(node.keys, key) IN
         IF child_idx >= Len(node.children) THEN Fail(s1, "panic")
         ELSE LET child_id == node.children[child_idx + 1] IN
              Then(get_node(s1, child_id), LAMBDA s2 :
                LET child == s2.got IN
                IF BKeys_len(child.keys) = full_size(t)
                  THEN Then(split_child(s2, node_id, node, child_idx, child_id, child),
                            LAMBDA s3 :
                         insert_non_full(s3, t,
                           IF key > s3.next[3] THEN s3.next[2] ELSE s3.next[1],
                           key, payload))
                ELSE Then(set_node(set_node(s2, node_id, node, FALSE), child_id, child, FALSE),
                          LAMBDA s3 : insert_non_full(s3, t, child_id, key, payload))))

\* insert returning without self.updated = true
insert_done_quiet(s) == s

\* insert ending with Ok(()) whatever its calls returned
insert_done_always(s) == [s EXCEPT !.updated = TRUE, !.err = "ok"]

\* self.updated = true; Ok(())
insert_done(s) == Then(s, LAMBDA x : [x EXCEPT !.updated = TRUE])

\* insert that does not split a full root
insert_root_kept(s, t, key, payload) ==
  IF s.root # None
  THEN LET root_id == s.root IN
       Then(get_node(s, root_id), LAMBDA s1 :
         Then(set_node(s1, root_id, s1.got, FALSE), LAMBDA s2 :
           insert_done(insert_non_full(s2, t, root_id, key, payload))))
  ELSE Then(new_node_id(s), LAMBDA s1 :
         LET new_root_id == s1.ret
             new_root_node == Leaf(BKeys_with_key_val(key, payload))
         IN Then(set_node(new_node(s1, new_root_id, new_root_node),
                          new_root_id, new_root_node, TRUE), LAMBDA s2 :
              insert_done([s2 EXCEPT !.root = new_root_id])))

\* insert that leaves state.root at the old root when it has split it
insert_root_unset(s, t, key, payload) ==
  IF s.root # None
  THEN LET root_id == s.root IN
       Then(get_node(s, root_id), LAMBDA s1 :
         LET root_node == s1.got IN
         IF BKeys_len(root_node.keys) = full_size(t)
           THEN Then(new_node_id(s1), LAMBDA s2 :
                  LET new_root_id == s2.ret
                      new_root == Internal(BKeys_default, <<root_id>>)
                  IN Then(new_node(s2, new_root_id, new_root),
                          LAMBDA s3 :
                     Then(split_child(s3, new_root_id, new_root, 0, root_id, root_node),
                          LAMBDA s4 :
                       insert_done(insert_non_full(s4, t, new_root_id, key, payload)))))
         ELSE Then(set_node(s1, root_id, root_node, FALSE), LAMBDA s2 :
                insert_done(insert_non_full(s2, t, root_id, key, payload))))
  ELSE Then(new_node_id(s), LAMBDA s1 :
         LET new_root_id == s1.ret
             new_root_node == Leaf(BKeys_with_key_val(key, payload))
         IN Then(set_node(new_node(s1, new_root_id, new_root_node),
                          new_root_id, new_root_node, TRUE), LAMBDA s2 :
              insert_done([s2 EXCEPT !.root = new_root_id])))

\* insert that puts a new root above a root that lacks one key to be full
insert_root_early(s, t, key, payload) ==
  IF s.root # None
  THEN LET root_id == s.root IN
       Then(get_node(s, root_id), LAMBDA s1 :
         LET root_node == s1.got IN
         IF BKeys_len(root_node.keys) >= full_size(t) - 1
           THEN Then(new_node_id(s1), LAMBDA s2 :
                  LET new_root_id == s2.ret
                      new_root == Internal(BKeys_default, <<root_id>>)
                  IN Then([new_node(s2, new_root_id, new_root) EXCEPT !.root = new_root_id],
                          LAMBDA s3 :
                     Then(split_child(s3, new_root_id, new_root, 0, root_id, root_node),
                          LAMBDA s4 :
                       insert_done(insert_non_full(s4, t, new_root_id, key, payload)))))
         ELSE Then(set_node(s1, root_id, root_node, FALSE), LAMBDA s2 :
                insert_done(insert_non_full(s2, t, root_id, key, payload))))
  ELSE Then(new_node_id(s), LAMBDA s1 :
         LET new_root_id == s1.ret
             new_root_node == Leaf(BKeys_with_key_val(key, payload))
         IN Then(set_node(new_node(s1, new_root_id, new_root_node),
                          new_root_id, new_root_node, TRUE), LAMBDA s2 :
              insert_done([s2 EXCEPT !.root = new_root_id])))

\* insert that looks at the root once more when insert_non_full is done
insert_root_again(s, t, key, payload) ==
  IF s.root # None
  THEN LET root_id == s.root IN
       Then(get_node(s, root_id), LAMBDA s1 :
         LET root_node == s1.got IN
         IF BKeys_len(root_node.keys) = full_size(t)
           THEN Then(new_node_id(s1), LAMBDA s2 :
                  LET new_root_id == s2.ret
                      new_root == Internal(BKeys_default, <<root_id>>)
                  IN Then([new_node(s2, new_root_id, new_root) EXCEPT !.root = new_root_id],
                          LAMBDA s3 :
                     Then(split_child(s3, new_root_id, new_root, 0, root_id, root_node),
                          LAMBDA s4 :
                       insert_done(insert_non_full(s4, t, new_root_id, key, payload)))))
         ELSE Then(set_node(s1, root_id, root_node, FALSE), LAMBDA s2 :
                Then(insert_non_full(s2, t, root_id, key, payload), LAMBDA s3 :
                  Then(get_node(s3, root_id), LAMBDA s4 :
                    insert_done(set_node(s4, root_id, s4.got, FALSE))))))
  ELSE Then(new_node_id(s), LAMBDA s1 :
         LET new_root_id == s1.ret
             new_root_node == Leaf(BKeys_with_key_val(key, payload))
         IN Then(set_node(new_node(s1, new_root_id, new_root_node),
                          new_root_id, new_root_node, TRUE), LAMBDA s2 :
              insert_done([s2 EXCEPT !.root = new_root_id])))

insert(s, t, key, payload) ==
  IF s.root # None
  THEN LET root_id == s.root IN
       Then(get_node(s, root_id), LAMBDA s1 :
         LET root_node == s1.got IN
         IF BKeys_len(root_node.keys) = full_size(t)
           THEN Then(new_node_id(s1), LAMBDA s2 :
                  LET new_root_id == s2.ret
                      new_root == Internal(BKeys_default, <<root_id>>)
                  IN Then([new_node(s2, new_root_id, new_root) EXCEPT !.root = new_root_id],
                          LAMBDA s3 :
                     Then(split_child(s3, new_root_id, new_root, 0, root_id, root_node),
                          LAMBDA s4 :
                       insert_done(insert_non_full(s4, t, new_root_id, key, payload)))))
         ELSE Then(set_node(s1, root_id, root_node, FALSE), LAMBDA s2 :
                insert_done(insert_non_full(s2, t, root_id, key, payload))))
  ELSE Then(new_node_id(s), LAMBDA s1 :
         LET new_root_id == s1.ret
             new_root_node == Leaf(BKeys_with_key_val(key, payload))
         IN Then(set_node(new_node(s1, new_root_id, new_root_node),
                          new_root_id, new_root_node, TRUE), LAMBDA s2 :
              insert_done([s2 EXCEPT !.root = new_root_id])))

\* handed that never asks for the node to be written
handed_not_updated(s, keys, children, node_update, next) ==
  [s EXCEPT !.keys = keys, !.children = children, !.node_update = FALSE, !.next = next]

\* what deleted_from_internal and deleted_traversal hand back: the keys and
\* children of the node as changed, node_update, and the next step
\* <<is_main_key, key_to_delete, node_id>>
handed(s, keys, children, node_update, next) ==
  [s EXCEPT !.keys = keys, !.children = children, !.node_update = node_update,
            !.next = next]

\* CLRS 2: the key is in this internal node
deleted_from_internal(s, t, keys, children, key_to_delete) ==
  LET left_idx == get_child_idx(keys, key_to_delete) IN
  IF left_idx >= Len(children) THEN Fail(s, "panic")
  ELSE
  LET left_id == children[left_idx + 1] IN
  Then(get_node(s, left_id), LAMBDA s1 :
    LET left_node == s1.got IN
    IF BKeys_len(left_node.keys) >= t /\ BKeys_get_last_key(left_node.keys) # None
      THEN \* CLRS 2a
           LET key_prim == BKeys_get_last_key(left_node.keys)
               payload_prim == left_node.keys[key_prim]
           IN Then(set_node(s1, left_id, left_node, TRUE), LAMBDA s2 :
                Tagged(handed(s2, BKeys_insert(BKeys_remove(keys, key_to_delete),
                                               key_prim, payload_prim),
                              children, s2.node_update, <<FALSE, key_prim, left_id>>), "2a"))
    ELSE
    LET right_idx == left_idx + 1 IN
    IF right_idx >= Len(children) THEN Fail(s1, "panic")
    ELSE
    LET right_id == children[right_idx + 1] IN
    Then(get_node(s1, right_id), LAMBDA s2 :
      LET right_node == s2.got IN
      IF BKeys_len(right_node.keys) >= t /\ BKeys_get_first_key(right_node.keys) # None
        THEN \* CLRS 2b
             LET key_prim == BKeys_get_first_key(right_node.keys)
                 payload_prim == right_node.keys[key_prim]
             IN Then(set_node(set_node(s2, left_id, left_node, FALSE),
                              right_id, right_node, TRUE), LAMBDA s3 :
                  Tagged(handed(s3, BKeys_insert(BKeys_remove(keys, key_to_delete),
                                                 key_prim, payload_prim),
                                children, s3.node_update, <<FALSE, key_prim, right_id>>), "2b"))
      ELSE \* CLRS 2c
           LET merged == Node_append(left_node, key_to_delete, 0, right_node) IN
           IF ~merged.ok THEN Fail(s2, "CorruptedIndex")
           ELSE Then(remove_node(set_node(s2, left_id, merged.node, TRUE), right_id),
                     LAMBDA s3 :
                  Tagged(handed(s3, BKeys_remove(keys, key_to_delete),
                                VecRemove(children, right_idx), s3.node_update,
                                <<FALSE, key_to_delete, left_id>>), "2c"))))

\* CLRS 3a, a key moves from the right sibling through the parent
delete_adjust_successor(s, keys, child_idx, key_to_delete, is_main_key, child_id, child_node, right_id, right_node) ==
  LET ascending_key == BKeys_get_first_key(right_node.keys)
      descending_key == BKeys_get_key(keys, child_idx)
  IN IF ascending_key = None \/ descending_key = None THEN Fail(s, "CorruptedIndex")
     ELSE
     LET right == [right_node EXCEPT !.keys = BKeys_remove(@, ascending_key)]
         child == [child_node EXCEPT !.keys = BKeys_insert(@, descending_key, keys[descending_key])]
     IN Then(set_node(set_node(s, child_id, child, TRUE), right_id, right, TRUE), LAMBDA s1 :
          handed(s1, BKeys_insert(BKeys_remove(keys, descending_key),
                                  ascending_key, right_node.keys[ascending_key]),
                 s1.children, TRUE, <<is_main_key, key_to_delete, child_id>>))

\* CLRS 3a, a key moves from the left sibling through the parent
delete_adjust_predecessor(s, keys, child_idx, key_to_delete, is_main_key, child_id, child_node, left_id, left_node) ==
  LET ascending_key == BKeys_get_last_key(left_node.keys)
      descending_key == BKeys_get_key(keys, child_idx)
  IN IF ascending_key = None \/ descending_key = None THEN Fail(s, "CorruptedIndex")
     ELSE
     LET left == [left_node EXCEPT !.keys = BKeys_remove(@, ascending_key)]
         child == [child_node EXCEPT !.keys = BKeys_insert(@, descending_key, keys[descending_key])]
     IN Then(set_node(set_node(s, child_id, child, TRUE), left_id, left, TRUE), LAMBDA s1 :
          handed(s1, BKeys_insert(BKeys_remove(keys, descending_key),
                                  ascending_key, left_node.keys[ascending_key]),
                 s1.children, TRUE, <<is_main_key, key_to_delete, child_id>>))

\* merge_nodes that does not remove the right child
merge_nodes_keeping(s, keys, children, child_idx, key_to_delete, is_main_key, left_id, left_child, right_id, right_child) ==
  LET descending_key == BKeys_get_key(keys, child_idx) IN
  IF descending_key = None THEN Fail(s, "CorruptedIndex")
  ELSE IF child_idx + 1 >= Len(children) THEN Fail(s, "panic")
  ELSE LET merged == Node_append(left_child, descending_key, keys[descending_key], right_child) IN
       IF ~merged.ok THEN Fail(s, "CorruptedIndex")
       ELSE Then(set_node(s, left_id, merged.node, TRUE), LAMBDA s1 :
              handed(s1, BKeys_remove(keys, descending_key),
                     VecRemove(children, child_idx + 1), TRUE,
                     <<is_main_key, key_to_delete, left_id>>))

\* CLRS 3b, the right child is appended to the left one
merge_nodes(s, keys, children, child_idx, key_to_delete, is_main_key, left_id, left_child, right_id, right_child) ==
  LET descending_key == BKeys_get_key(keys, child_idx) IN
  IF descending_key = None THEN Fail(s, "CorruptedIndex")
  ELSE IF child_idx + 1 >= Len(children) THEN Fail(s, "panic")     \* Vec::remove
  ELSE LET merged == Node_append(left_child, descending_key, keys[descending_key], right_child) IN
       IF ~merged.ok THEN Fail(s, "CorruptedIndex")
       ELSE Then(remove_node(set_node(s, left_id, merged.node, TRUE), right_id), LAMBDA s1 :
              handed(s1, BKeys_remove(keys, descending_key),
                     VecRemove(children, child_idx + 1), TRUE,
                     <<is_main_key, key_to_delete, left_id>>))

\* deleted_traversal that turns to the left sibling first
deleted_traversal_left_first(s, t, keys, children, key_to_delete, is_main_key) ==
  LET child_idx == get_child_idx(keys, key_to_delete) IN
  IF child_idx >= Len(children) THEN Fail(s, "panic")
  ELSE
  LET child_id == children[child_idx + 1] IN
  Then(get_node([s EXCEPT !.keys = keys, !.children = children], child_id), LAMBDA s1 :
    LET child_stored_node == s1.got IN
    IF BKeys_len(child_stored_node.keys) < t /\ child_idx > 0
      THEN LET left_id == children[child_idx] IN
           Then(get_node(s1, left_id), LAMBDA s2 :
             IF BKeys_len(s2.got.keys) >= t
               THEN Tagged(delete_adjust_predecessor(s2, keys, child_idx - 1, key_to_delete,
                                                     is_main_key, child_id, child_stored_node,
                                                     left_id, s2.got), "3a-left")
             ELSE Tagged(merge_nodes(s2, keys, children, child_idx - 1, key_to_delete,
                                     is_main_key, left_id, s2.got, child_id, child_stored_node),
                         "3b-left"))
    ELSE IF BKeys_len(child_stored_node.keys) < t /\ child_idx < Len(children) - 1
      THEN LET right_id == children[child_idx + 2] IN
           Then(get_node(s1, right_id), LAMBDA s2 :
             IF BKeys_len(s2.got.keys) >= t
               THEN Tagged(delete_adjust_successor(s2, keys, child_idx, key_to_delete,
                                                   is_main_key, child_id, child_stored_node,
                                                   right_id, s2.got), "3a-right")
             ELSE Tagged(merge_nodes(s2, keys, children, child_idx, key_to_delete, is_main_key,
                                     child_id, child_stored_node, right_id, s2.got),
                         "3b-right"))
    ELSE Then(set_node(s1, child_id, child_stored_node, FALSE), LAMBDA s2 :
           Tagged(handed(s2, s2.keys, s2.children, FALSE, <<TRUE, key_to_delete, child_id>>),
                  "3")))

\* CLRS 3: the key is not in this internal node
deleted_traversal(s, t, keys, children, key_to_delete, is_main_key) ==
  LET child_idx == get_child_idx(keys, key_to_delete) IN
  IF child_idx >= Len(children) THEN Fail(s, "panic")
  ELSE
  LET child_id == children[child_idx + 1] IN
  Then(get_node([s EXCEPT !.keys = keys, !.children = children], child_id), LAMBDA s1 :
    LET child_stored_node == s1.got IN
    IF BKeys_len(child_stored_node.keys) < t /\ child_idx < Len(children) - 1
      THEN LET right_id == children[child_idx + 2] IN
           Then(get_node(s1, right_id), LAMBDA s2 :
             IF BKeys_len(s2.got.keys) >= t
               THEN Tagged(delete_adjust_successor(s2, keys, child_idx, key_to_delete,
                                                   is_main_key, child_id, child_stored_node,
                                                   right_id, s2.got), "3a-right")
             ELSE Tagged(merge_nodes(s2, keys, children, child_idx, key_to_delete, is_main_key,
                                     child_id, child_stored_node, right_id, s2.got),
                         "3b-right"))
    ELSE IF BKeys_len(child_stored_node.keys) < t /\ child_idx > 0
      THEN LET left_id == children[child_idx] IN
           Then(get_node(s1, left_id), LAMBDA s2 :
             IF BKeys_len(s2.got.keys) >= t
               THEN Tagged(delete_adjust_predecessor(s2, keys, child_idx - 1, key_to_delete,
                                                     is_main_key, child_id, child_stored_node,
                                                     left_id, s2.got), "3a-left")
             ELSE Tagged(merge_nodes(s2, keys, children, child_idx - 1, key_to_delete,
                                     is_main_key, left_id, s2.got, child_id, child_stored_node),
                         "3b-left"))
    ELSE Then(set_node(s1, child_id, child_stored_node, FALSE), LAMBDA s2 :
           Tagged(handed(s2, s2.keys, s2.children, FALSE, <<TRUE, key_to_delete, child_id>>),
                  "3")))

\* traversed handing a changed node back as not dirty
traversed_clean(s, node_id) ==
  IF BKeys_len(s.keys) = 0
    THEN IF s.root # None /\ s.root # node_id THEN Fail(s, "Unreachable")
         ELSE Then(remove_node(s, node_id), LAMBDA r :
                [r EXCEPT !.root = s.next[3], !.updated = TRUE])
  ELSE IF s.node_update
    THEN Then(set_node(s, node_id, Internal(s.keys, s.children), FALSE), LAMBDA r :
           [r EXCEPT !.updated = TRUE])
  ELSE set_node(s, node_id, Internal(s.keys, s.children), FALSE)

\* the node of case 3 is put back, or removed when it has no key left
traversed(s, node_id) ==
  IF BKeys_len(s.keys) = 0
    THEN IF s.root # None /\ s.root # node_id THEN Fail(s, "Unreachable")
         ELSE Then(remove_node(s, node_id), LAMBDA r :
                [r EXCEPT !.root = s.next[3], !.updated = TRUE])
  ELSE IF s.node_update
    THEN Then(set_node(s, node_id, Internal(s.keys, s.children), TRUE), LAMBDA r :
           [r EXCEPT !.updated = TRUE])
  ELSE set_node(s, node_id, Internal(s.keys, s.children), FALSE)

RECURSIVE delete_loop(_, _, _, _, _)
delete_loop(s, t, is_main_key, key_to_delete, node_id) ==
  Then(get_node(s, node_id), LAMBDA s0 :
    LET node == s0.got
        s1 == Onward(Headed(s0, node_id, node, is_main_key, key_to_delete), node_id)
        found == key_to_delete \in DOMAIN node.keys
        s1p == IF found /\ is_main_key
               THEN [s1 EXCEPT !.deleted_payload = node.keys[key_to_delete]] ELSE s1
    IN IF node.leaf
         THEN \* CLRS 1
              IF found
              THEN LET keys == BKeys_remove(node.keys, key_to_delete) IN
                   Then(IF BKeys_len(keys) = 0
                        THEN Then(remove_node(s1p, node_id), LAMBDA r :
                               IF node_id = r.root THEN [r EXCEPT !.root = None] ELSE r)
                        ELSE set_node(s1p, node_id, Leaf(keys), TRUE),
                        LAMBDA s2 : [s2 EXCEPT !.updated = TRUE])
              ELSE set_node(s1, node_id, node, FALSE)
       ELSE IF found
         THEN \* CLRS 2
              Then(deleted_from_internal(s1p, t, node.keys, node.children, key_to_delete),
                   LAMBDA s2x :
                LET s2 == Stepped(s1, s2x, node_id, node, is_main_key, key_to_delete) IN
                Then(set_node(s2, node_id, Internal(s2.keys, s2.children), TRUE), LAMBDA s3 :
                  delete_loop([s3 EXCEPT !.updated = TRUE], t,
                              s2.next[1], s2.next[2], s2.next[3])))
       ELSE \* CLRS 3
            Then(deleted_traversal(s1, t, node.keys, node.children, key_to_delete, is_main_key),
                 LAMBDA s2x :
              LET s2 == Stepped(s1, s2x, node_id, node, is_main_key, key_to_delete) IN
              Then(traversed(s2, node_id), LAMBDA s3 :
                delete_loop(s3, t, s2.next[1], s2.next[2], s2.next[3]))))

\* delete that walks down from the root a second time
delete_again(s, t, key_to_delete) ==
  IF s.root = None THEN s
  ELSE Then(delete_loop(s, t, TRUE, key_to_delete, s.root), LAMBDA r :
         IF r.root = None THEN r ELSE delete_loop(r, t, FALSE, key_to_delete, r.root))

\* the payload deleted, or None, is in s.deleted_payload
delete(s, t, key_to_delete) ==
  IF s.root = None THEN s
  ELSE delete_loop(s, t, TRUE, key_to_delete, s.root)

\* BTree::statistics over a Traversal store, which reads every node from the
\* transaction.  total_size, the sum of the lengths of the serialised nodes,
\* is left out: the model has no byte encoding of a node.
RECURSIVE statistics_loop(_, _, _)
statistics_loop(t, node_queue, stats) ==
  IF node_queue = <<>> THEN stats
  ELSE LET node_id == Head(node_queue)[1]
           depth == Head(node_queue)[2]
       IN IF node_id \notin DOMAIN t THEN [stats EXCEPT !.err = "CorruptedIndex"]
          ELSE LET stored_node == t[node_id]
                   pushed == [i \in 1..Len(stored_node.children) |->
                                <<stored_node.children[Len(stored_node.children) + 1 - i], depth + 1>>]
               IN statistics_loop(t, pushed \o Tail(node_queue),
                    [stats EXCEPT !.keys_count = @ + BKeys_len(stored_node.keys),
                                  !.max_depth = IF depth > @ THEN depth ELSE @,
                                  !.nodes_count = @ + 1])

statistics(r, t) ==
  statistics_loop(t, IF r = None THEN <<>> ELSE <<<<r, 1>>>>,
                  [keys_count |-> 0, max_depth |-> 0, nodes_count |-> 0, err |-> "ok"])

\* BTree::statistics over the store of the context s, of any kind; the
\* Statistics are in s.stats
RECURSIVE statistics_walk(_, _)
statistics_walk(s, node_queue) ==
  IF node_queue = <<>> THEN s
  ELSE LET node_id == Head(node_queue)[1]
           depth == Head(node_queue)[2]
       IN Then(get_node(s, node_id), LAMBDA s1 :
            LET stored_node == s1.got
                pushed == [i \in 1..Len(stored_node.children) |->
                             <<stored_node.children[Len(stored_node.children) + 1 - i], depth + 1>>]
            IN Then(set_node([s1 EXCEPT !.stats.keys_count = @ + BKeys_len(stored_node.keys),
                                        !.stats.max_depth = IF depth > @ THEN depth ELSE @,
                                        !.stats.nodes_count = @ + 1],
                             node_id, stored_node, FALSE), LAMBDA s2 :
                 statistics_walk(s2, pushed \o Tail(node_queue))))

statistics_with(s) ==
  statistics_walk(s, IF s.root = None THEN <<>> ELSE <<<<s.root, 1>>>>)

----------------------------------------------------------------------------
(* The drivers.  The free driver calls insert and delete with any key     *)
(* on a tree of the smallest degree, 2, in which its few calls split and  *)
(* merge nodes, and ends with a search or statistics.  The fill and seq   *)
(* drivers insert the keys 1, 2, ... in this order with payload 10 * key  *)
(* (tests::insertions_test with get_key_value) and then delete keys, each *)
(* once: fill MaxGone keys in any order and then the others in the order  *)
(* of insertion, seq all keys in the order of insertion                   *)
(* (tests::test_btree_fill_and_empty).  The clrs driver runs              *)
(* clrs_insertion_test and the deletes of test_btree_clrs_deletion_test   *)
(* on stores of several capacities and with store calls that fail, the    *)
(* fst driver test_btree_fst_small_order_sequential_insertions, the rnd    *)
(* driver insertions_test on samples in an order that is not the order of *)
(* the keys (test_btree_fst_small_order_random_insertions).  Each call    *)
(* runs on a new store and is followed by finish, as in                   *)
(* test_btree_clrs_deletion_test.                                         *)

Keys == 1..MaxKey

\* every key a driver can use
AllKeys == (1..MaxKey) \cup (1..MaxFill) \cup (1..MaxSeq) \cup DOMAIN stored

\* The payload the free driver writes: 1 for a key not stored, otherwise one
\* more than the stored payload, so that an overwrite changes the payload.
NewPayload(key) == IF key \in DOMAIN stored THEN stored[key] + 1 ELSE 1

\* the result of statistics() when it has not been called
NoStats == [keys_count |-> 0, max_depth |-> 0, nodes_count |-> 0, err |-> "none"]

\* a new store of kind k and capacity c, whose call number n fails, for the
\* tree as it is
Store(k, c, n) == StoreOf(NewStore(root, next_node_id, updated, tx), k, c, n)

\* what search returns on the tree as persisted, read through a Read store
Found(r, t, key) == search(StoreOf(NewStore(r, 0, FALSE, t), "Read", CacheSize, 0), key)

\* CLRS_EXAMPLE: the letters a..z are the keys 1..26, each with its payload
CLRS_EXAMPLE ==
  <<1, 3, 7, 10, 11, 13, 14, 15, 16, 20, 21, 24, 25, 26, 22, 4, 5, 18, 19, 2, 17, 12, 6>>

\* the keys test_btree_clrs_deletion_test deletes: f, m, g, d, b
ClrsDeleted == <<6, 13, 7, 4, 2>>

\* format!("{}", idx) as the sequence of its decimal digits
Digits(idx) ==
  IF idx < 10 THEN <<idx>>
  ELSE IF idx < 100 THEN <<idx \div 10, idx % 10>>
  ELSE <<idx \div 100, (idx \div 10) % 10, idx % 10>>

\* the order of byte strings
LexLess(a, b) ==
  \E i \in 1..(Len(a) + 1) :
    /\ i <= Len(b)
    /\ \A j \in 1..(i - 1) : a[j] = b[j]
    /\ i <= Len(a) => a[i] < b[i]

\* get_key_value(idx): the key is the place of the string of idx among the
\* strings of the samples, in the order of byte strings
get_key_value(idx) ==
  [key |-> 1 + Cardinality({j \in 0..(FstSamples - 1) : LexLess(Digits(j), Digits(idx))}),
   payload |-> idx * 10]

\* samples.shuffle(&mut rng): one order in which the rnd driver inserts its
\* keys.  With t = 2 it fills the leftmost leaf, then fills the root by the
\* splits of the rightmost leaf, and then inserts below the leftmost leaf.
Shuffled == <<4, 5, 6, 7, 8, 2, 3, 9, 10, 11, 1>>

\* the capacities of the stores of the clrs driver
Caps == (1..MaxCache) \cup {CacheSize}

\* what the store of a call has seen when the call returns
Observed(s) ==
  [kind |-> s.kind, cap |-> s.cap, failat |-> s.failat, calls |-> s.calls,
   peak |-> s.peak, twice |-> s.twice, stray |-> s.stray, out |-> s.out,
   mem |-> s.mem, wrote |-> s.wrote, flushed |-> s.flushed, dropped |-> s.dropped,
   trace |-> s.trace, most |-> s.most, heads |-> s.heads, steps |-> s.steps,
   splits |-> s.splits, leafn |-> s.leafn, path |-> s.path, high |-> s.high]

\* no call outside the tree is made
NoRun == [unit |-> "tree"]

Init ==
  /\ mode \in {"free", "fill", "seq", "clrs", "fst", "rnd"}
  /\ minimum_degree \in (IF mode = "clrs" THEN {ClrsDegree}
                         ELSE IF mode = "fst" THEN {FstDegree}
                         ELSE IF mode = "free" THEN {2} ELSE 2..MaxDegree)
  /\ root = None
  /\ next_node_id = 0
  /\ updated = FALSE
  /\ tx = <<>>
  /\ status = "ok"
  /\ last = [op |-> "new", key |-> None, payload |-> None, ret |-> None, stats |-> NoStats]
  /\ stored = <<>>
  /\ count = 0
  /\ gone = {}
  /\ obs = Observed(NewStore(None, 0, FALSE, <<>>))
  /\ run = NoRun

\* the state the call leaves: a failed call is not followed by finish; high
\* is the height the tree had when the call was made
Leave(s) ==
  /\ root' = s.root
  /\ next_node_id' = s.next_node_id
  /\ updated' = s.updated
  /\ tx' = IF Ok(s) THEN s.tx ELSE tx
  /\ status' = s.err
  /\ obs' = Observed([s EXCEPT !.high = statistics(root, tx).max_depth])

\* the call t.insert(key, payload) has left the context s
Inserted(s, key, payload) ==
  /\ Leave(s)
  /\ last' = [op |-> "insert", key |-> key, payload |-> payload, ret |-> None, stats |-> NoStats]
  /\ stored' = IF Ok(s) THEN BKeys_insert(stored, key, payload) ELSE stored

\* insert(key, payload) and finish on a Write store of capacity c whose call
\* number n fails
InsertWith(key, payload, c, n) ==
  Inserted(finish(insert(Store("Write", c, n), minimum_degree, key, payload)), key, payload)

DoInsert(key, payload) == InsertWith(key, payload, CacheSize, 0)

\* the call t.delete(key) has left the context s
Deleted(s, key) ==
  /\ Leave(s)
  /\ last' = [op |-> "delete", key |-> key, payload |-> None, ret |-> s.deleted_payload,
              stats |-> NoStats]
  /\ stored' = IF Ok(s) THEN BKeys_remove(stored, key) ELSE stored

DeleteWith(key, c, n) ==
  Deleted(finish(delete(Store("Write", c, n), minimum_degree, key)), key)

DoDelete(key) == DeleteWith(key, CacheSize, 0)

\* the driver has gone over to reading
Checking == last.op \in {"search", "statistics"}

Insert(key) ==
  /\ status = "ok" /\ mode = "free" /\ count < MaxOps /\ ~Checking
  /\ DoInsert(key, NewPayload(key))
  /\ count' = count + 1
  /\ UNCHANGED <<run, minimum_degree, mode, gone>>

Delete(key) ==
  /\ status = "ok" /\ mode = "free" /\ count < MaxOps /\ ~Checking
  /\ DoDelete(key)
  /\ count' = count + 1
  /\ UNCHANGED <<run, minimum_degree, mode, gone>>

\* the call t.search(key) has left the context s
Searched(s, key) ==
  /\ Leave(s)
  /\ stored' = stored
  /\ last' = [op |-> "search", key |-> key, payload |-> None, ret |-> s.ret, stats |-> NoStats]

\* the call t.statistics() has left the context s
Counted(s) ==
  /\ Leave(s)
  /\ stored' = stored
  /\ last' = [op |-> "statistics", key |-> None, payload |-> None, ret |-> None,
              stats |-> [s.stats EXCEPT !.err = s.err]]

\* search on a Read store of its own, for the key of the call before, as
\* insertions_test searches the key it has inserted
Search(key) ==
  /\ status = "ok" /\ mode = "free" /\ ~Checking /\ key = last.key
  /\ Searched(finish(search(Store("Read", CacheSize, 0), key)), key)
  /\ UNCHANGED <<run, minimum_degree, mode, count, gone>>

\* statistics() on a Traversal store
Statistics ==
  /\ status = "ok" /\ mode = "free" /\ ~Checking
  /\ Counted(finish(statistics_with(Store("Traversal", 0, 0))))
  /\ UNCHANGED <<run, minimum_degree, mode, count, gone>>

FillInsert ==
  /\ status = "ok" /\ mode \in {"fill", "seq"} /\ gone = {}
  /\ count < (IF mode = "fill" THEN MaxFill ELSE MaxSeq)
  /\ DoInsert(count + 1, 10 * (count + 1))
  /\ count' = count + 1
  /\ UNCHANGED <<run, minimum_degree, mode, gone>>

FillDelete(key) ==
  /\ status = "ok" /\ mode = "fill" /\ key \in (1..count) \ gone
  /\ Cardinality(gone) < MaxGone \/ \A k \in (1..count) \ gone : key <= k
  /\ DoDelete(key)
  /\ gone' = gone \cup {key}
  /\ UNCHANGED <<run, minimum_degree, mode, count>>

SeqDelete ==
  /\ status = "ok" /\ mode = "seq" /\ Cardinality(gone) < count
  /\ DoDelete(Cardinality(gone) + 1)
  /\ gone' = gone \cup {Cardinality(gone) + 1}
  /\ UNCHANGED <<run, minimum_degree, mode, count>>

\* the clrs driver: clrs_insertion_test, then the deletes of
\* test_btree_clrs_deletion_test, each call on a store of any of the
\* capacities Caps in which no call or one of the first MaxFail calls fails
ClrsInsert(c, n) ==
  /\ status = "ok" /\ mode \in {"clrs", "reopened"} /\ ~Checking
  /\ count < Len(CLRS_EXAMPLE)
  /\ InsertWith(CLRS_EXAMPLE[count + 1], CLRS_EXAMPLE[count + 1], c, n)
  /\ count' = IF status' = "ok" THEN count + 1 ELSE count
  /\ UNCHANGED <<run, minimum_degree, mode, gone>>

ClrsDelete(c, n) ==
  /\ status = "ok" /\ mode \in {"clrs", "reopened"} /\ ~Checking
  /\ count >= Len(CLRS_EXAMPLE) /\ count < Len(CLRS_EXAMPLE) + Len(ClrsDeleted)
  /\ DeleteWith(ClrsDeleted[count - Len(CLRS_EXAMPLE) + 1], c, n)
  /\ count' = IF status' = "ok" THEN count + 1 ELSE count
  /\ UNCHANGED <<run, minimum_degree, mode, gone>>

\* search and statistics of the clrs driver, on a store of any kind; the
\* driver makes no call after them
ClrsSearch(key, k, n) ==
  /\ status = "ok" /\ mode \in {"clrs", "reopened"} /\ ~Checking
  /\ Searched(finish(search(Store(k, CacheSize, n), key)), key)
  /\ UNCHANGED <<run, minimum_degree, mode, count, gone>>

ClrsStatistics(k, n) ==
  /\ status = "ok" /\ mode \in {"clrs", "reopened"} /\ ~Checking
  /\ Counted(finish(statistics_with(Store(k, CacheSize, n))))
  /\ UNCHANGED <<run, minimum_degree, mode, count, gone>>

\* BTree::new(state) on the State of the tree of S1, as a caller does that
\* has persisted the State and goes on in a later transaction: the new
\* BTree has the root and next_node_id of the old one and is not updated
Reopen ==
  /\ status = "ok" /\ mode \in {"clrs", "reopened"} /\ ~Checking
  /\ count >= Len(CLRS_EXAMPLE) /\ updated
  /\ updated' = FALSE
  /\ mode' = "reopened"
  /\ last' = [op |-> "new", key |-> None, payload |-> None, ret |-> None, stats |-> NoStats]
  /\ obs' = Observed(NewStore(None, 0, FALSE, <<>>))
  /\ UNCHANGED <<run, minimum_degree, root, next_node_id, tx, status, stored, count, gone>>

\* the fst driver: test_btree_fst_small_order_sequential_insertions
FstInsert ==
  /\ status = "ok" /\ mode = "fst" /\ count < FstSamples
  /\ DoInsert(get_key_value(count).key, get_key_value(count).payload)
  /\ count' = count + 1
  /\ UNCHANGED <<run, minimum_degree, mode, gone>>

\* the rnd driver: insertions_test on shuffled samples
RndInsert ==
  /\ status = "ok" /\ mode = "rnd" /\ count < Len(Shuffled)
  /\ DoInsert(Shuffled[count + 1], 10 * Shuffled[count + 1])
  /\ count' = count + 1
  /\ UNCHANGED <<run, minimum_degree, mode, gone>>

Next ==
  \/ \E key \in Keys : Insert(key)
  \/ \E key \in Keys : Delete(key)
  \/ \E key \in Keys : Search(key)
  \/ Statistics
  \/ FillInsert
  \/ \E key \in 1..MaxFill : FillDelete(key)
  \/ SeqDelete
  \/ \E c \in Caps, n \in 0..MaxFail : ClrsInsert(c, n)
  \/ \E c \in Caps, n \in 0..MaxFail : ClrsDelete(c, n)
  \/ \E key \in Keys, k \in {"Read", "Write", "Traversal"}, n \in 0..MaxFail :
       ClrsSearch(key, k, n)
  \/ \E k \in {"Read", "Write", "Traversal"}, n \in 0..MaxFail : ClrsStatistics(k, n)
  \/ Reopen
  \/ FstInsert
  \/ RndInsert

Spec == Init /\ [][Next]_vars

----------------------------------------------------------------------------
(* The tree as persisted, read from root and tx without the store.  A walk  *)
(* is cut after more nodes than there are records, so that it ends on a     *)
(* graph that is not a tree.                                                *)

\* the pairs <<node id, depth>> met when following child ids from node_id
RECURSIVE ReachFrom(_, _, _, _)
ReachFrom(t, node_id, depth, fuel) ==
  IF fuel = 0 THEN {}
  ELSE {<<node_id, depth>>} \cup
       (IF node_id \in DOMAIN t
        THEN UNION {ReachFrom(t, t[node_id].children[i], depth + 1, fuel - 1) :
                      i \in DOMAIN t[node_id].children}
        ELSE {})

Reach == IF root = None THEN {} ELSE ReachFrom(tx, root, 1, Cardinality(DOMAIN tx) + 1)

ReachIds == {p[1] : p \in Reach}

\* the depths at which a leaf is met
LeafDepths == {p[2] : p \in {q \in Reach : q[1] \in DOMAIN tx /\ tx[q[1]].leaf}}

\* the keys in the order child 0, key 0, child 1, key 1, ...
RECURSIVE InOrderFrom(_, _, _)
RECURSIVE Weave(_, _, _, _)
InOrderFrom(t, node_id, fuel) ==
  IF fuel = 0 \/ node_id \notin DOMAIN t THEN <<>>
  ELSE Weave(t, t[node_id], 0, fuel)

Weave(t, node, i, fuel) ==
  IF i >= Len(node.children) /\ i >= BKeys_len(node.keys) THEN <<>>
  ELSE (IF i < Len(node.children) THEN InOrderFrom(t, node.children[i + 1], fuel - 1) ELSE <<>>)
       \o (IF i < BKeys_len(node.keys) THEN <<BKeys_get_key(node.keys, i)>> ELSE <<>>)
       \o Weave(t, node, i + 1, fuel)

\* the node ids in the order in which a walk from node_id meets them, an id
\* met twice listed twice
RECURSIVE VisitsFrom(_, _, _)
RECURSIVE VisitsBelow(_, _, _, _)
VisitsFrom(t, node_id, fuel) ==
  IF fuel = 0 THEN <<>>
  ELSE <<node_id>> \o (IF node_id \in DOMAIN t THEN VisitsBelow(t, t[node_id], 1, fuel) ELSE <<>>)

VisitsBelow(t, node, i, fuel) ==
  IF i > Len(node.children) THEN <<>>
  ELSE VisitsFrom(t, node.children[i], fuel - 1) \o VisitsBelow(t, node, i + 1, fuel)

Visits == IF root = None THEN <<>> ELSE VisitsFrom(tx, root, Cardinality(DOMAIN tx) + 1)

InOrder == IF root = None THEN <<>> ELSE InOrderFrom(tx, root, Cardinality(DOMAIN tx) + 1)

Stats == statistics(root, tx)

Searchable ==
  \A k \in AllKeys : LET s == Found(root, tx, k) IN Ok(s) /\ s.ret = BKeys_get(stored, k)

Ordered == \A i \in 1..(Len(InOrder) - 1) : InOrder[i] < InOrder[i + 1]

KeyCounts ==
  \A id \in ReachIds :
    /\ id \in DOMAIN tx
    /\ BKeys_len(tx[id].keys) <= full_size(minimum_degree)
    /\ BKeys_len(tx[id].keys) >= (IF id = root THEN 1 ELSE minimum_degree - 1)

ChildCounts ==
  \A id \in ReachIds \cap DOMAIN tx :
    ~tx[id].leaf => Len(tx[id].children) = BKeys_len(tx[id].keys) + 1

\* a B-tree that holds the keys and payloads of stored
Sound == Searchable /\ Ordered /\ KeyCounts /\ ChildCounts /\ Cardinality(LeafDepths) <= 1

----------------------------------------------------------------------------
(* The claims                                                               *)

\* C1: after any sequence of successful inserts and deletes, re-inserts and
\* deletes of absent keys included, search(k) returns the payload of the
\* latest insert(k) that no delete(k) followed, and None for any other key.
C1_SearchReturnsLatest == status = "ok" => Searchable

\* C2: after every successful insert or delete the keys met in order (child,
\* key, child, ...) are strictly increasing, so every node separates its
\* subtrees and no key occurs twice in the tree, also after a re-insert.
C2_OrderedNoDuplicate == status = "ok" => Ordered

\* C3: after every successful insert or delete every node has at most
\* 2t - 1 keys, every node but the root at least t - 1, and the root of a
\* non-empty tree at least 1.
C3_KeyCountBounds == status = "ok" => KeyCounts

\* C4: after every successful insert or delete every internal node has one
\* child more than it has keys.
C4_ChildrenKeysPlusOne == status = "ok" => ChildCounts

\* C5: after every insert and every delete that has returned, with a result
\* or with an error, all leaves are at the same depth.
C5_LeavesSameDepth == status # "panic" => Cardinality(LeafDepths) <= 1

\* C5 case: a successful delete has left a sound tree of three levels with
\* several leaves
C5_Witness ==
  /\ status = "ok" /\ last.op = "delete" /\ Sound
  /\ LeafDepths = {3}
  /\ Cardinality({id \in ReachIds \cap DOMAIN tx : tx[id].leaf}) >= 4

\* C6: called on a sound tree, a successful delete(k) returns the payload
\* stored under k, or None when k is not stored, and search gives for every
\* other key what it gave before the call.
C6_DeleteReturnsPayload ==
  [][(Sound /\ last'.op = "delete" /\ status' = "ok") =>
       /\ last'.ret = BKeys_get(stored, last'.key)
       /\ \A k \in AllKeys \ {last'.key} :
            LET before == Found(root, tx, k)
                after == Found(root', tx', k)
            IN Ok(after) /\ after.ret = before.ret]_vars

\* C7: after a successful operation and finish the node records of the
\* transaction are exactly the nodes reachable from the root, and
\* statistics().nodes_count is their number.
C7_RecordsAreReachable ==
  status = "ok" => /\ DOMAIN tx = ReachIds
                   /\ Stats.err = "ok"
                   /\ Stats.nodes_count = Cardinality(DOMAIN tx)

\* C8: when the keys 1..count have been inserted and then every one of them
\* has been deleted, in any order, each delete successful, the root is
\* absent, statistics() reports 0 keys, depth 0 and 0 nodes, and the
\* transaction holds no node record.
C8_EmptyAfterDeletingAll ==
  (status = "ok" /\ mode \in {"fill", "seq"} /\ count >= 1 /\ gone = 1..count) =>
     /\ root = None
     /\ Stats.keys_count = 0 /\ Stats.max_depth = 0 /\ Stats.nodes_count = 0
     /\ DOMAIN tx = {}

\* C9: a successful insert of a key that a sound tree already stores leaves
\* statistics().nodes_count as it was.
C9_OverwriteKeepsNodes ==
  [][(Sound /\ last'.op = "insert" /\ status' = "ok" /\ last'.key \in DOMAIN stored) =>
       statistics(root', tx').nodes_count = Stats.nodes_count]_vars

\* C10: after every successful operation statistics().keys_count is the
\* number of distinct keys stored, re-inserts counted once, and an empty
\* tree has keys_count, max_depth and nodes_count 0.
C10_KeysCountDistinct ==
  status = "ok" =>
     /\ Stats.err = "ok"
     /\ Stats.keys_count = Cardinality(DOMAIN stored)
     /\ root = None => (Stats.keys_count = 0 /\ Stats.max_depth = 0 /\ Stats.nodes_count = 0)

\* the keys S, each with the payload of CLRS_EXAMPLE
Pay(S) == [k \in S |-> k]

\* the children of the node id, as stored
ChildrenOf(id) == [i \in 1..Len(tx[id].children) |-> tx[tx[id].children[i]]]

\* C11: scenario S1.  With t = 3, after the 23 inserts of CLRS_EXAMPLE the
\* statistics are 23 keys, depth 3, 10 nodes; the root is internal with the
\* key p; its left child has the keys c, g, m and the leaves {a,b},
\* {d,e,f}, {j,k,l}, {n,o}; its right child the keys t, x and the leaves
\* {q,r,s}, {u,v}, {y,z}.
C11_ClrsInsertion ==
  (mode \in {"clrs", "reopened"} /\ status = "ok" /\ count = Len(CLRS_EXAMPLE)) =>
     /\ Stats = [keys_count |-> 23, max_depth |-> 3, nodes_count |-> 10, err |-> "ok"]
     /\ tx[root] = Internal(Pay({16}), tx[root].children)
     /\ Len(tx[root].children) = 2
     /\ tx[tx[root].children[1]] = Internal(Pay({3, 7, 13}), tx[tx[root].children[1]].children)
     /\ ChildrenOf(tx[root].children[1]) =
          <<Leaf(Pay({1, 2})), Leaf(Pay({4, 5, 6})), Leaf(Pay({10, 11, 12})), Leaf(Pay({14, 15}))>>
     /\ tx[tx[root].children[2]] = Internal(Pay({20, 24}), tx[tx[root].children[2]].children)
     /\ ChildrenOf(tx[root].children[2]) =
          <<Leaf(Pay({17, 18, 19})), Leaf(Pay({21, 22})), Leaf(Pay({25, 26}))>>

\* C11 case: the last insert of the scenario, f, has returned, made on a
\* store of capacity 1
C11_Witness ==
  /\ mode \in {"clrs", "reopened"} /\ status = "ok" /\ count = Len(CLRS_EXAMPLE)
  /\ last.op = "insert" /\ last.key = 6 /\ obs.cap = 1

\* C12: scenario S2.  On the tree of S1 the deletes of f, m, g, d, b return
\* 6, 13, 7, 4, 2, and after them the statistics are 18 keys, depth 2,
\* 7 nodes, the root has the keys e, l, p, t, x and the leaves are {a,c},
\* {j,k}, {n,o}, {q,r,s}, {u,v}, {y,z} in this order.
C12_ClrsDeletion ==
  /\ (mode \in {"clrs", "reopened"} /\ status = "ok" /\ last.op = "delete") =>
        last.ret = ClrsDeleted[count - Len(CLRS_EXAMPLE)]
  /\ (mode \in {"clrs", "reopened"} /\ status = "ok" /\ count = Len(CLRS_EXAMPLE) + Len(ClrsDeleted)) =>
        /\ Stats = [keys_count |-> 18, max_depth |-> 2, nodes_count |-> 7, err |-> "ok"]
        /\ tx[root] = Internal(Pay({5, 12, 16, 20, 24}), tx[root].children)
        /\ ChildrenOf(root) =
             <<Leaf(Pay({1, 3})), Leaf(Pay({10, 11})), Leaf(Pay({14, 15})),
               Leaf(Pay({17, 18, 19})), Leaf(Pay({21, 22})), Leaf(Pay({25, 26}))>>

\* C12 case: the last delete of the scenario, b, has returned
C12_Witness ==
  /\ mode \in {"clrs", "reopened"} /\ status = "ok" /\ count = Len(CLRS_EXAMPLE) + Len(ClrsDeleted)
  /\ last.op = "delete" /\ last.key = 2 /\ last.ret = 2

\* C13: scenario S4 (structure).  With t = 5, after the inserts of the keys
\* "0", "1", ..., "99", ordered as byte strings, the statistics are 100
\* keys, depth 3 and 22 nodes.
C13_FstSequential ==
  (mode = "fst" /\ status = "ok" /\ count = FstSamples) =>
     Stats = [keys_count |-> 100, max_depth |-> 3, nodes_count |-> 22, err |-> "ok"]

\* C13 case: the hundredth insert, of "99" with payload 990, has returned
C13_Witness ==
  /\ mode = "fst" /\ status = "ok" /\ count = FstSamples
  /\ last.op = "insert" /\ last.payload = 990 /\ last.key = FstSamples

\* C14: is_updated() is false on a new tree and no call resets it; it is
\* true after every successful insert and after every successful delete
\* that changed the root, next_node_id or a node record, also when it was
\* false before the call.
C14_UpdatedTracksChanges ==
  /\ [](last.op = "new" => ~updated)
  /\ [][/\ (last'.op # "new" /\ updated) => updated'
        /\ (last'.op = "insert" /\ status' = "ok") => updated'
        /\ (status' = "ok" /\ (root' # root \/ next_node_id' # next_node_id \/ tx' # tx))
              => updated'
        /\ (last'.op = "delete" /\ status' = "ok" /\ (root' # root \/ tx' # tx)) =>
              delete(NewStore(root, next_node_id, FALSE, tx), minimum_degree, last'.key).updated
       ]_vars

\* C14 case: the first delete on a reopened tree, whose is_updated() was
\* false, has changed the tree and is_updated() is true
C14_Witness ==
  /\ mode = "reopened" /\ status = "ok" /\ last.op = "delete"
  /\ count = Len(CLRS_EXAMPLE) + 1 /\ updated

\* C15: next_node_id never decreases; every id of a record and every id
\* reachable from the root is smaller than next_node_id; no id is met twice
\* on the walk from the root; and the id of every record a call adds is at
\* least the next_node_id before the call, so it is no id that a node had
\* before, removed or not.
C15_NodeIdsNeverReused ==
  /\ [](/\ \A id \in ReachIds \cup DOMAIN tx : id < next_node_id
        /\ \A i, j \in 1..Len(Visits) : Visits[i] = Visits[j] => i = j)
  /\ [][/\ next_node_id' >= next_node_id
        /\ \A id \in (DOMAIN tx') \ (DOMAIN tx) : id >= next_node_id /\ id < next_node_id'
       ]_vars

\* C15 case: an insert has created a node after deletes have removed nodes
C15_Witness ==
  /\ status = "ok" /\ last.op = "insert"
  /\ next_node_id - 1 \in obs.flushed
  /\ \E id \in 0..(next_node_id - 2) : id \notin DOMAIN tx
  /\ Cardinality(DOMAIN tx) >= 3

\* C16: a search, and a statistics, on a store of any kind leaves the
\* root, next_node_id, is_updated() and every record of the transaction
\* as they were, hands no node back as dirty (finish has nothing to write
\* or delete and no eviction writes), and on a Read store ends as it ends
\* on a Write store, with the same result.
C16_SearchReadOnly ==
  [][last'.op \in {"search", "statistics"} =>
       /\ root' = root /\ next_node_id' = next_node_id /\ updated' = updated /\ tx' = tx
       /\ obs'.flushed = {} /\ obs'.wrote = {} /\ obs'.dropped = {}
       /\ (last'.op = "search" /\ obs'.kind = "Read") =>
             LET w == search(Store("Write", CacheSize, obs'.failat), last'.key)
             IN status' = w.err /\ last'.ret = w.ret
       /\ (last'.op = "statistics" /\ obs'.kind = "Read") =>
             LET w == statistics_with(Store("Write", CacheSize, obs'.failat))
             IN status' = w.err /\ last'.stats = [w.stats EXCEPT !.err = w.err]
     ]_vars

\* C16 case: a search on a Read store has fetched three nodes, from the
\* root to a leaf, and found its key
C16_Witness ==
  /\ status = "ok" /\ last.op = "search" /\ obs.kind = "Read"
  /\ last.ret # None /\ obs.calls >= 6

\* C17: in no call does get_node ask for a node that is checked out, and
\* when a call returns successfully no node is checked out and no node was
\* handed back that was not checked out.
C17_OneHandlePerNode ==
  /\ ~obs.twice
  /\ status = "ok" => (obs.out = {} /\ ~obs.stray)

\* C17 case: a delete that merged two nodes and removed one has returned
C17_Witness ==
  /\ status = "ok" /\ last.op = "delete" /\ last.ret # None
  /\ obs.dropped # {} /\ obs.flushed # {} /\ obs.out = {}

\* C18 as claimed: in every search, insert and delete at most two nodes are
\* checked out at the same time.
C18_AtMostTwoOut == last.op \in {"search", "insert", "delete"} => obs.peak <= 2

\* C18 as amended: in every search and insert at most two nodes are checked
\* out at the same time, and in every delete at most three.
C18_AtMostThreeOut ==
  /\ last.op \in {"search", "insert"} => obs.peak <= 2
  /\ last.op = "delete" => obs.peak <= 3

\* C18 case: a delete has held a node, its child and the sibling of the child
C18_Witness == status = "ok" /\ last.op = "delete" /\ obs.peak = 3

\* the call has left the root and the records that big, the same call on a
\* store that evicted nothing, leaves
Agrees(big) == tx' = big.tx /\ root' = big.root /\ big.wrote = {}

\* C19: after a successful insert or delete and finish on a Write store of
\* any capacity, every reachable node that the call handed back has in the
\* transaction the content in which it was last handed back; no removed
\* node has a record; on a store of a capacity 1..MaxCache the root and the
\* records are those the same call leaves on a store of capacity CacheSize,
\* which evicts nothing; and every record the call changed was written by
\* an eviction of a dirty node or by finish.
C19_FinishWritesLatest ==
  [][(status' = "ok" /\ last'.op \in {"insert", "delete"}) =>
          /\ \A id \in ReachIds' \cap DOMAIN obs'.mem :
               id \in DOMAIN tx' /\ tx'[id] = obs'.mem[id]
          /\ obs'.dropped \cap DOMAIN tx' = {}
          /\ obs'.cap # CacheSize =>
               Agrees(IF last'.op = "insert"
                      THEN finish(insert(Store("Write", CacheSize, 0), minimum_degree,
                                         last'.key, last'.payload))
                      ELSE finish(delete(Store("Write", CacheSize, 0), minimum_degree,
                                         last'.key)))
          /\ \A id \in (DOMAIN tx') \cup (DOMAIN tx) :
               (id \notin DOMAIN tx \/ id \notin DOMAIN tx' \/ tx'[id] # tx[id]) =>
                  id \in obs'.wrote \cup obs'.flushed \cup obs'.dropped
     ]_vars

\* C19 case: a delete on a store of capacity 1 has returned; dirty nodes
\* were evicted and written during the call, another was written by finish
\* and a node was removed
C19_Witness ==
  /\ status = "ok" /\ last.op = "delete" /\ obs.cap = 1
  /\ obs.wrote # {} /\ obs.flushed # {} /\ obs.dropped # {}

\* C20: when a call of the store fails during a search, insert, delete or
\* statistics, the operation returns that error and has made no store call
\* after the one that failed; and it returns that error only then.
C20_ErrorsPropagate ==
  /\ (obs.failat > 0 /\ obs.calls >= obs.failat) =>
        (status = "Tx" /\ obs.calls = obs.failat)
  /\ status = "Tx" => (obs.failat > 0 /\ obs.calls = obs.failat)

\* C20 case: the last of the store calls that can fail has failed in a
\* delete, after a node was fetched and handed back
C20_Witness ==
  /\ status = "Tx" /\ last.op = "delete"
  /\ obs.failat = MaxFail /\ obs.calls = MaxFail

\* C21: when delete finds its key in a root that has this one key and two
\* children of t - 1 keys each (case 2c), then after the delete has returned
\* the old root has no record and the root is the merged node y, the left
\* child.
C21_MergedRootReplaced ==
  [][(/\ last'.op = "delete" /\ status' = "ok" /\ Sound
      /\ root # None /\ ~tx[root].leaf /\ DOMAIN tx[root].keys = {last'.key}
      /\ \A i \in 1..Len(tx[root].children) :
            BKeys_len(tx[tx[root].children[i]].keys) = minimum_degree - 1)
     => (root' = tx[root].children[1] /\ root \notin DOMAIN tx')]_vars

\* the index in node.children of the child c a step of case 3 descends into
ChildIdx(e) == get_child_idx(e.node.keys, e.key) + 1

\* C22: in every rotation of case 3a between internal nodes the adjacent
\* child pointer of the lending sibling moves to the child c with the key
\* (the first child of the right sibling becomes the last child of c, the
\* last child of the left sibling the first child of c), and afterwards
\* both nodes have one child more than keys.
C22_RotationMovesChild ==
  \A n \in 1..Len(obs.steps) :
    LET e == obs.steps[n]
        i == ChildIdx(e)
    IN /\ (e.case = "3a-right" /\ ~e.before[i].leaf /\ ~e.before[i + 1].leaf) =>
            /\ e.kids[i].children =
                 e.before[i].children \o SubSeq(e.before[i + 1].children, 1, 1)
            /\ e.kids[i + 1].children =
                 SubSeq(e.before[i + 1].children, 2, Len(e.before[i + 1].children))
            /\ Len(e.kids[i].children) = BKeys_len(e.kids[i].keys) + 1
            /\ Len(e.kids[i + 1].children) = BKeys_len(e.kids[i + 1].keys) + 1
       /\ (e.case = "3a-left" /\ ~e.before[i].leaf /\ ~e.before[i - 1].leaf) =>
            /\ e.kids[i].children =
                 SubSeq(e.before[i - 1].children, Len(e.before[i - 1].children),
                        Len(e.before[i - 1].children)) \o e.before[i].children
            /\ e.kids[i - 1].children =
                 SubSeq(e.before[i - 1].children, 1, Len(e.before[i - 1].children) - 1)
            /\ Len(e.kids[i].children) = BKeys_len(e.kids[i].keys) + 1
            /\ Len(e.kids[i - 1].children) = BKeys_len(e.kids[i - 1].keys) + 1

\* C23: when a delete on a sound tree replaces its key in a node N by a key
\* of a child (cases 2a and 2b), the replacement is the greatest stored key
\* smaller than the deleted key (2a) or the smallest stored key greater
\* than it (2b), and after the delete the keys met in order are strictly
\* increasing.
C23_ReplacedByNeighbour ==
  [][(last'.op = "delete" /\ status' = "ok" /\ Sound) =>
       /\ \A n \in 1..Len(obs'.steps) :
            LET e == obs'.steps[n] IN
            /\ (e.case = "2a" /\ e.is_main_key) =>
                  e.next[2] = SetMax({k \in DOMAIN stored : k < e.key})
            /\ (e.case = "2b" /\ e.is_main_key) =>
                  e.next[2] = SetMin({k \in DOMAIN stored : k > e.key})
       /\ (\E n \in 1..Len(obs'.steps) : obs'.steps[n].case \in {"2a", "2b"}) => Ordered'
     ]_vars

\* the heads of the call at which delete found its key in an internal node
Case2Heads == {n \in 1..Len(obs.heads) :
                 ~obs.heads[n].node.leaf /\ obs.heads[n].key \in DOMAIN obs.heads[n].node.keys}

\* the ids that a step fetched, in the order of the calls
Fetched(e) == SelectSeq(e.calls, LAMBDA c : c[1] = "get")

\* the head e is one of case 2 and, with the target at index j of N.keys,
\* idx is j and j + 1 is a position of N.children
KeyBetweenChildren(e, idx) ==
  /\ BKeys_get_key(e.node.keys, idx) = e.key
  /\ idx + 1 < Len(e.node.children)

\* the step e of case 2 has fetched children[j] first and, when it has
\* fetched a second node, children[j + 1], j the index of the target
LeftThenRight(e) ==
  LET j == Cardinality({k \in DOMAIN e.node.keys : k < e.key}) IN
  /\ Len(Fetched(e)) = (IF e.case = "2a" THEN 1 ELSE 2)
  /\ Fetched(e)[1][2] = e.node.children[j + 1]
  /\ e.case # "2a" => Fetched(e)[2][2] = e.node.children[j + 2]

\* C24: in case 2, with the target at index j of N.keys, get_child_idx
\* gives j, the node consulted as left child y is children[j], the node
\* consulted as right child z is children[j + 1], and j and j + 1 are
\* positions of N.children, also when the target is the last key of N.
C24_LeftAndRightOfKey ==
  /\ \A n \in Case2Heads :
       KeyBetweenChildren(obs.heads[n], get_child_idx(obs.heads[n].node.keys, obs.heads[n].key))
  /\ \A n \in 1..Len(obs.steps) :
       obs.steps[n].case \in {"2a", "2b", "2c"} => LeftThenRight(obs.steps[n])

\* C24 for the deletes that are called on a sound tree only
C24_OnSound ==
  [][(last'.op = "delete" /\ Sound) =>
       /\ \A n \in 1..Len(obs'.heads) :
            (~obs'.heads[n].node.leaf /\ obs'.heads[n].key \in DOMAIN obs'.heads[n].node.keys) =>
              KeyBetweenChildren(obs'.heads[n],
                                 get_child_idx(obs'.heads[n].node.keys, obs'.heads[n].key))
       /\ \A n \in 1..Len(obs'.steps) :
            obs'.steps[n].case \in {"2a", "2b", "2c"} => LeftThenRight(obs'.steps[n])]_vars

\* C24 with get_child_idx in the words of the specification, the index of
\* the first key greater than the target
C24_AsSpecified ==
  \A n \in Case2Heads :
    KeyBetweenChildren(obs.heads[n],
                       get_child_idx_greater(obs.heads[n].node.keys, obs.heads[n].key))

\* the steps of case 3 of the call
Case3Steps == {n \in 1..Len(obs.steps) :
                 obs.steps[n].case \in {"3", "3a-right", "3a-left", "3b-right", "3b-left"}}

\* the number of keys the child at position i (from 1) of the node of the
\* step e had before the step
KeysOfKid(e, i) == BKeys_len(e.before[i].keys)

\* C25: in case 3, when the child c has t - 1 keys, a sibling on both sides,
\* a right sibling of t - 1 keys and a left sibling of at least t keys, the
\* step is the rotation from the left sibling: no node is merged or removed
\* and the node keeps its children.
C25_RotatesFromLeft ==
  \A n \in Case3Steps :
    LET e == obs.steps[n]
        i == ChildIdx(e)
    IN (/\ i > 1 /\ i < Len(e.before)
        /\ KeysOfKid(e, i) = minimum_degree - 1
        /\ KeysOfKid(e, i + 1) = minimum_degree - 1
        /\ KeysOfKid(e, i - 1) >= minimum_degree)
       => /\ e.case = "3a-left"
          /\ e.after.children = e.node.children
          /\ \A c \in 1..Len(e.calls) : e.calls[c][1] # "remove"

\* in the step e of case 3 the child c has t - 1 keys and a sibling of at
\* least t keys on either side
BothLend(e) ==
  LET i == ChildIdx(e) IN
  /\ i > 1 /\ i < Len(e.before)
  /\ KeysOfKid(e, i) = minimum_degree - 1
  /\ KeysOfKid(e, i + 1) >= minimum_degree
  /\ KeysOfKid(e, i - 1) >= minimum_degree

\* C26: in case 3, when the child c has t - 1 keys and both its siblings
\* have at least t keys, the key is borrowed from the right sibling: the
\* key of the node between c and the right sibling goes down into c, the
\* first key of the right sibling goes up in its place, and the left
\* sibling is not changed and no call of the store is made for it.
C26_BorrowsFromRight ==
  \A n \in Case3Steps :
    LET e == obs.steps[n]
        i == ChildIdx(e)
        down == BKeys_get_key(e.node.keys, i - 1)
        up == BKeys_get_first_key(e.before[i + 1].keys)
    IN BothLend(e) =>
         /\ e.case = "3a-right"
         /\ e.kids[i].keys = BKeys_insert(e.before[i].keys, down, e.node.keys[down])
         /\ e.kids[i + 1].keys = BKeys_remove(e.before[i + 1].keys, up)
         /\ e.after.keys = BKeys_insert(BKeys_remove(e.node.keys, down), up,
                                        e.before[i + 1].keys[up])
         /\ e.kids[i - 1] = e.before[i - 1]
         /\ \A c \in 1..Len(obs.trace) : obs.trace[c][2] # e.node.children[i - 1]

\* C26 case: a successful delete has met a child of t - 1 keys between two
\* siblings of at least t keys
C26_Witness ==
  /\ status = "ok" /\ last.op = "delete" /\ last.ret # None
  /\ \E n \in Case3Steps : BothLend(obs.steps[n])

\* C27: every node that the loop of a delete fetches as its current node
\* and that is not the root has at least t keys.
C27_CurrentNodeCanLose ==
  \A n \in 1..Len(obs.heads) :
    ~obs.heads[n].is_root => BKeys_len(obs.heads[n].node.keys) >= minimum_degree

\* C27 for the deletes that are called on a sound tree only
C27_OnSound ==
  [][(last'.op = "delete" /\ Sound) =>
       \A n \in 1..Len(obs'.heads) :
         ~obs'.heads[n].is_root => BKeys_len(obs'.heads[n].node.keys) >= minimum_degree]_vars

\* C28: whenever split_child runs during an insert the child has 2t - 1
\* keys and the parent fewer; no node that an insert hands to the store has
\* more than 2t - 1 keys; and the leaf that receives the key has fewer than
\* 2t - 1 keys before it receives it.
C28_SplitsOnlyFull ==
  last.op = "insert" =>
    /\ \A n \in 1..Len(obs.splits) :
         /\ BKeys_len(obs.splits[n].child.keys) = 2 * minimum_degree - 1
         /\ BKeys_len(obs.splits[n].parent.keys) < 2 * minimum_degree - 1
    /\ obs.most <= 2 * minimum_degree - 1
    /\ obs.leafn < 2 * minimum_degree - 1

\* C28 case: an insert has split two nodes on its way down, the second
\* under a parent that had a key, and has put its key into a leaf
C28_Witness ==
  /\ status = "ok" /\ last.op = "insert"
  /\ Len(obs.splits) >= 2 /\ obs.leafn >= 1
  /\ \E n \in 1..Len(obs.splits) : BKeys_len(obs.splits[n].parent.keys) >= 1

\* the keys of a node at the positions lo..hi (from 0), with their payloads
KeysAt(keys, lo, hi) ==
  [k \in {x \in DOMAIN keys : LET p == Cardinality({y \in DOMAIN keys : y < x})
                               IN lo <= p /\ p <= hi} |-> keys[k]]

\* C29: split_child(parent, i, child) on a child of 2t - 1 keys leaves a
\* left node with the id of the child, its t - 1 smallest keys and, for an
\* internal child, its first t children, and a right node with a new id,
\* the t - 1 largest keys and the last t children; the parent gets the
\* median key with its payload and the right id at position i + 1 of its
\* children; the three nodes are handed to the store as dirty, left, right,
\* parent; and the (key, payload) pairs below the parent are in order what
\* they were.
C29_SplitChild ==
  \A n \in 1..Len(obs.splits) :
    LET e == obs.splits[n]
        t == minimum_degree
        median == BKeys_get_key(e.child.keys, t - 1)
    IN BKeys_len(e.child.keys) = 2 * t - 1 =>
         /\ e.ret = <<e.child_id, e.fresh, median>>
         /\ e.next_node_id = e.fresh + 1
         /\ e.fresh # e.parent_id /\ \A c \in 1..Len(e.parent.children) : e.parent.children[c] # e.fresh
         /\ e.parent.children[e.idx + 1] = e.child_id
         /\ e.left.leaf = e.child.leaf /\ e.right.leaf = e.child.leaf
         /\ e.left.keys = KeysAt(e.child.keys, 0, t - 2)
         /\ e.right.keys = KeysAt(e.child.keys, t, 2 * t - 2)
         /\ e.left.children = (IF e.child.leaf THEN <<>> ELSE SubSeq(e.child.children, 1, t))
         /\ e.right.children =
              (IF e.child.leaf THEN <<>> ELSE SubSeq(e.child.children, t + 1, Len(e.child.children)))
         /\ ~e.child.leaf => Len(e.right.children) = t
         /\ e.parent_after.keys = BKeys_insert(e.parent.keys, median, e.child.keys[median])
         /\ e.parent_after.children = VecInsert(e.parent.children, e.idx + 1, e.fresh)
         /\ e.calls = <<<<"new", e.child_id, FALSE>>, <<"set", e.child_id, TRUE>>,
                        <<"new", e.fresh, FALSE>>, <<"set", e.fresh, TRUE>>,
                        <<"set", e.parent_id, TRUE>>>>
         /\ e.after = e.before

\* C29 case: an insert has split an internal child of 2t - 1 keys and 2t
\* children and then a leaf under a parent that had keys
C29_Witness ==
  /\ status = "ok" /\ last.op = "insert"
  /\ \E n \in 1..Len(obs.splits) :
       /\ ~obs.splits[n].child.leaf
       /\ Len(obs.splits[n].child.children) = 2 * minimum_degree
  /\ \E n \in 1..Len(obs.splits) :
       /\ obs.splits[n].child.leaf
       /\ BKeys_len(obs.splits[n].parent.keys) >= 1

\* C30: when insert finds the root with 2t - 1 keys and next_node_id = n,
\* the new root gets the id n and the new right sibling the id n + 1; when
\* the root has been split, the root is n, next_node_id is n + 2 and the
\* new root holds the median of the old root, with its payload, and the
\* children [old root, n + 1]; when insert returns, the root is n and has
\* this one key and these two children, next_node_id is n + 2 and one more
\* for every node split further down, and the tree is one level higher.
C30_FullRootSplit ==
  [][(/\ last'.op = "insert" /\ status' = "ok"
      /\ root # None /\ root \in DOMAIN tx
      /\ BKeys_len(tx[root].keys) = 2 * minimum_degree - 1)
     => LET n == next_node_id
            median == BKeys_get_key(tx[root].keys, minimum_degree - 1)
            e == obs'.splits[1]
        IN /\ Len(obs'.splits) >= 1
           /\ e.parent_id = n /\ e.child_id = root /\ e.fresh = n + 1
           /\ e.root = n /\ e.next_node_id = n + 2
           /\ e.parent_after =
                Internal(BKeys_with_key_val(median, tx[root].keys[median]), <<root, n + 1>>)
           /\ root' = n
           /\ DOMAIN tx'[n].keys = {median}
           /\ tx'[n].children = <<root, n + 1>>
           /\ next_node_id' = n + 1 + Len(obs'.splits)
           /\ statistics(root', tx').max_depth = Stats.max_depth + 1]_vars

\* C30 case: the insert of clrs_insertion_test that found the root full
\* with next_node_id = 7 has returned: the root is 7 with the children 1, 8
C30_Witness ==
  /\ mode \in {"clrs", "reopened"} /\ status = "ok" /\ last.op = "insert"
  /\ Len(obs.splits) >= 1 /\ obs.splits[1].parent_id = 7
  /\ root = 7 /\ tx[root].children = <<1, 8>> /\ next_node_id = 9

----------------------------------------------------------------------------
(* The walks of the operations                                              *)

\* the nodes of the iterations before the iteration k of the call
Before(k) == {obs.path[j][1] : j \in 1..(k - 1)}

\* C31: during one insert the nodes strictly descend: from the moment an
\* iteration of insert_non_full has its node, which is a child of the node
\* of the iteration before, no call of the store (get_node, set_node,
\* new_node, remove_node) is made on a node of an earlier iteration.
C31_InsertNeverRevisits ==
  last.op = "insert" =>
    \A k \in 2..Len(obs.path) :
      \A p \in obs.path[k][2]..Len(obs.trace) : obs.trace[p][2] \notin Before(k)

\* an insert that went down two levels and split a child on its way
C31_Witness ==
  /\ last.op = "insert" /\ status = "ok"
  /\ Len(obs.path) >= 3 /\ Len(obs.splits) >= 1
  /\ \E p \in 1..Len(obs.trace) : obs.trace[p][2] = obs.path[1][1] /\ p > obs.path[1][2]

----------------------------------------------------------------------------
(* Node::append on its own: the receiver and the argument are any two nodes *)
(* with keys of 1..MaxAppend, of the same kind or not, as merge_nodes may   *)
(* hand them over on an index that is corrupted.                            *)

\* the calls outside the tree leave the tree as it was made
Still ==
  /\ mode = "run" /\ minimum_degree = 2
  /\ root = None /\ next_node_id = 0 /\ updated = FALSE /\ tx = <<>>
  /\ status = "ok"
  /\ last = [op |-> "new", key |-> None, payload |-> None, ret |-> None, stats |-> NoStats]
  /\ stored = <<>> /\ count = 0 /\ gone = {}
  /\ obs = Observed(NewStore(None, 0, FALSE, <<>>))

\* the keys of a node: any keys of 1..MaxAppend, the payload of k being 10 * k
AppendKeys == {[k \in S |-> 10 * k] : S \in SUBSET (1..MaxAppend)}

\* leaves and internal nodes
AppendNodes ==
  {Leaf(keys) : keys \in AppendKeys}
    \cup {Internal(keys, children) : keys \in AppendKeys, children \in {<<7>>, <<8, 9>>}}

InitAppend ==
  /\ Still
  /\ run \in [unit : {"append"}, self : AppendNodes, key : 1..(MaxAppend + 1), payload : {5},
               node : AppendNodes, ret : {"none"}, after : {Leaf(<<>>)}]

\* self.append(key, payload, node)
AppendCall ==
  /\ run.unit = "append" /\ run.ret = "none"
  /\ LET r == Node_append(run.self, run.key, run.payload, run.node)
     IN run' = [run EXCEPT !.ret = IF r.ok THEN "Ok" ELSE "CorruptedIndex", !.after = r.node]
  /\ UNCHANGED tree

NextAppend == AppendCall

SpecAppend == InitAppend /\ [][NextAppend]_vars

\* C32: Node::append on an internal receiver with a leaf argument, or on a
\* leaf receiver with an internal argument, returns CorruptedIndex and
\* leaves the keys and the children of the receiver as they were.
C32_AppendMismatch ==
  (run.unit = "append" /\ run.ret # "none" /\ run.self.leaf # run.node.leaf) =>
     /\ run.ret = "CorruptedIndex"
     /\ run.after.keys = run.self.keys
     /\ run.after.children = run.self.children
     /\ run.after.leaf = run.self.leaf

\* an internal receiver was given a leaf with a key, and a new key
C32_Witness ==
  /\ run.unit = "append" /\ run.ret = "CorruptedIndex"
  /\ ~run.self.leaf /\ run.node.leaf
  /\ run.node.keys # <<>> /\ run.key \notin DOMAIN run.self.keys

----------------------------------------------------------------------------
(* Errors that no input should bring about                                  *)

\* C33: from the empty tree, for any t >= 2, no insert or delete on a Write
\* store whose backend does not fail returns CorruptedIndex or Unreachable,
\* and none indexes children outside the sequence (a panic).
C33_NoCorruptionNoPanic ==
  (last.op \in {"insert", "delete"} /\ obs.kind = "Write" /\ obs.failat = 0) =>
     status \notin {"CorruptedIndex", "Unreachable", "panic"}

----------------------------------------------------------------------------
(* The length of the walks                                                  *)

\* b is a child of the node a in the records t
ChildOf(t, a, b) == a \in DOMAIN t /\ \E i \in DOMAIN t[a].children : t[a].children[i] = b

\* the larger of two numbers
Larger(a, b) == IF a > b THEN a ELSE b

\* the iteration k + 1 of the loop of the call works on a child of the node
\* of the iteration k: for delete a child that node had when it was fetched
Descends(k) ==
  IF last.op = "delete"
  THEN \E i \in DOMAIN obs.heads[k].node.children :
         obs.heads[k].node.children[i] = obs.path[k + 1][1]
  ELSE ChildOf(tx, obs.path[k][1], obs.path[k + 1][1])

\* the ids the call has fetched, in the order of the calls
Gets == SelectSeq(obs.trace, LAMBDA c : c[1] = "get")

\* C34: a search, insert or delete that returns Ok has made at most as many
\* iterations of its loop as the tree is high (the height after the call when
\* an insert has split the root), the first on the root and each next one on
\* a child of the node of the one before; a statistics() that returns Ok has
\* fetched every reachable node, each once.
C34_WalksAreBounded ==
  status = "ok" =>
    /\ last.op \in {"search", "insert", "delete"} =>
         /\ Len(obs.path) <= Larger(obs.high, Stats.max_depth)
         /\ Len(obs.path) >= 1 =>
              IF last.op = "delete" THEN obs.heads[1].is_root ELSE obs.path[1][1] = root
         /\ \A k \in 1..(Len(obs.path) - 1) : Descends(k)
    /\ last.op = "statistics" =>
         /\ Len(Gets) = Cardinality(ReachIds)
         /\ {Gets[i][2] : i \in 1..Len(Gets)} = ReachIds

\* a delete went through a tree of three levels
C34_Witness ==
  /\ last.op = "delete" /\ status = "ok" /\ Len(obs.path) = 3 /\ obs.high = 3

----------------------------------------------------------------------------
(* The height of the tree                                                   *)

\* the first split of the call had a new, empty root above the old root
RootWasFull ==
  /\ Len(obs.splits) >= 1
  /\ BKeys_len(obs.splits[1].parent.keys) = 0
  /\ obs.splits[1].root = obs.splits[1].parent_id
  /\ BKeys_len(obs.splits[1].child.keys) = 2 * minimum_degree - 1

\* C35: statistics().max_depth changes by at most 1 in a call: an insert never
\* lowers it and raises it only when the tree was empty or the root was full
\* when insert was called; a delete never raises it.
C35_HeightStepsByOne ==
  (status = "ok" /\ last.op \in {"insert", "delete"}) =>
     /\ Stats.max_depth - obs.high \in {-1, 0, 1}
     /\ last.op = "insert" =>
          /\ Stats.max_depth >= obs.high
          /\ Stats.max_depth > obs.high => (obs.high = 0 \/ RootWasFull)
     /\ last.op = "delete" => Stats.max_depth <= obs.high

\* an insert found the root of a tree of two levels full and made a third
C35_Witness ==
  /\ status = "ok" /\ last.op = "insert" /\ RootWasFull
  /\ obs.high = 2 /\ Stats.max_depth = 3

----------------------------------------------------------------------------
(* The State after a call that failed                                       *)

\* C36: when insert or delete returns an error, root, next_node_id and
\* updated are what they were before the call.
C36_ErrorLeavesState ==
  [][(last'.op \in {"insert", "delete"} /\ status' \notin {"ok", "panic"}) =>
       (root' = root /\ next_node_id' = next_node_id /\ updated' = updated)]_vars

----------------------------------------------------------------------------
(* IfelseStatement::compute (sql/statements/ifelse.rs).  An expression is   *)
(* given by what its compute returns: Err of an error, or Ok of a value,    *)
(* which is_truthy or not; val tells the errors and the values apart.  Each *)
(* compute is awaited, and is a step; log lists the computes made, as       *)
(* <<"cond", i>>, <<"then", i>> and <<"close", 0>>.                         *)

\* what the compute of an expression returns
Computes ==
  {[err |-> TRUE, truthy |-> FALSE, val |-> 9]}
    \cup [err : {FALSE}, truthy : BOOLEAN, val : 1..2]

\* Ok(Value::None)
Value_None == [err |-> FALSE, truthy |-> FALSE, val |-> 0]

\* an IfelseStatement without ELSE has close: None
NoClose == [err |-> FALSE, truthy |-> FALSE, val |-> None]

\* Value::is_truthy
is_truthy(v) == v.truthy

\* the sequences of at most n pairs <<cond, then>>
RECURSIVE ExprsUpTo(_)
ExprsUpTo(n) ==
  IF n = 0 THEN {<<>>}
  ELSE LET shorter == ExprsUpTo(n - 1)
       IN shorter \cup {Append(e, <<c, th>>) : e \in {x \in shorter : Len(x) = n - 1},
                                               c \in Computes, th \in Computes}

InitIfelse ==
  /\ Still
  /\ run \in [unit : {"ifelse"}, exprs : ExprsUpTo(MaxExprs), close : Computes \cup {NoClose},
               pc : {"cond"}, idx : {1}, log : {<<>>}, ret : {NoClose}]

\* a turn of the loop that goes on after the error of a condition
IfelseCond_on ==
  /\ run.unit = "ifelse" /\ run.pc = "cond" /\ run.idx <= Len(run.exprs)
  /\ LET v == run.exprs[run.idx][1]
         seen == [run EXCEPT !.log = Append(@, <<"cond", run.idx>>)]
     IN run' = IF ~v.err /\ is_truthy(v) THEN [seen EXCEPT !.pc = "then"]
               ELSE [seen EXCEPT !.idx = @ + 1]
  /\ UNCHANGED tree

\* one turn of the loop: cond.compute(..).await?, and is_truthy of its value
IfelseCond ==
  /\ run.unit = "ifelse" /\ run.pc = "cond" /\ run.idx <= Len(run.exprs)
  /\ LET v == run.exprs[run.idx][1]
         seen == [run EXCEPT !.log = Append(@, <<"cond", run.idx>>)]
     IN run' = IF v.err THEN [seen EXCEPT !.pc = "done", !.ret = v]
               ELSE IF is_truthy(v) THEN [seen EXCEPT !.pc = "then"]
               ELSE [seen EXCEPT !.idx = @ + 1]
  /\ UNCHANGED tree

\* return then.compute(..).await
IfelseThen ==
  /\ run.unit = "ifelse" /\ run.pc = "then"
  /\ run' = [run EXCEPT !.log = Append(@, <<"then", run.idx>>), !.pc = "done",
                        !.ret = run.exprs[run.idx][2]]
  /\ UNCHANGED tree

\* after the loop: the compute of close, or Ok(Value::None)
IfelseClose ==
  /\ run.unit = "ifelse" /\ run.pc = "cond" /\ run.idx > Len(run.exprs)
  /\ run' = IF run.close # NoClose
            THEN [run EXCEPT !.log = Append(@, <<"close", 0>>), !.pc = "done", !.ret = run.close]
            ELSE [run EXCEPT !.pc = "done", !.ret = Value_None]
  /\ UNCHANGED tree

NextIfelse == IfelseCond \/ IfelseThen \/ IfelseClose

SpecIfelse == InitIfelse /\ [][NextIfelse]_vars

\* the conditions that end the loop: those whose compute fails or is truthy
Stops == {i \in 1..Len(run.exprs) : run.exprs[i][1].err \/ run.exprs[i][1].truthy}

\* the computes of the conditions 1..n, in this order
CondsTo(n) == [i \in 1..n |-> <<"cond", i>>]

\* C37: compute evaluates the conditions in their order up to the first that
\* is truthy and returns what the THEN expression of that one computes to,
\* having evaluated no other THEN, no later condition and no ELSE; when no
\* condition is truthy it returns what ELSE computes to, or NONE without
\* ELSE; the error of a condition is returned when it is raised, with
\* nothing evaluated after it.
C37_IfelseFirstTruthy ==
  (run.unit = "ifelse" /\ run.pc = "done") =>
     IF Stops # {}
     THEN LET i == CHOOSE x \in Stops : \A y \in Stops : x <= y
              c == run.exprs[i][1]
          IN IF c.err
             THEN run.ret = c /\ run.log = CondsTo(i)
             ELSE run.ret = run.exprs[i][2] /\ run.log = Append(CondsTo(i), <<"then", i>>)
     ELSE IF run.close # NoClose
          THEN run.ret = run.close /\ run.log = Append(CondsTo(Len(run.exprs)), <<"close", 0>>)
          ELSE run.ret = Value_None /\ run.log = CondsTo(Len(run.exprs))

\* the second condition was the first truthy one; the THEN of the first and
\* the ELSE were left alone
C37_Witness ==
  /\ run.unit = "ifelse" /\ run.pc = "done" /\ Len(run.exprs) = 2
  /\ ~run.exprs[1][1].err /\ ~run.exprs[1][1].truthy
  /\ run.exprs[2][1].truthy /\ run.close # NoClose
  /\ run.ret = run.exprs[2][2] /\ run.ret # run.exprs[1][2] /\ run.ret # run.close
  /\ run.log = <<<<"cond", 1>>, <<"cond", 2>>, <<"then", 2>>>>

----------------------------------------------------------------------------
(* Limit::process (sql/limit.rs).  The limit expression is given by what    *)
(* its compute returns: Err of an error or Ok of a value.  The integers of  *)
(* the model are the i64 of Number::Int scaled down: Word stands for 2^32,  *)
(* the span of usize on a target with pointers of 32 bits; on a target with *)
(* pointers of 64 bits usize holds every i64 that is not negative.  Strings *)
(* are sequences of characters.                                             *)

\* the span of usize on a target of 32 bits, in the scale of the model
Word == 8

\* the values a limit expression computes to
LimitValues ==
  [kind : {"Int"}, int : (-MaxLimit)..MaxLimit, text : {<<>>}]
    \cup [kind : {"Float"}, int : {5, 25}, text : {<<>>}]
    \cup [kind : {"Bool"}, int : {0, 1}, text : {<<>>}]
    \cup [kind : {"None", "Null"}, int : {0}, text : {<<>>}]
    \cup [kind : {"Strand"}, int : {0}, text : {<<>>, <<"5">>, <<"a", "b">>}]

\* the errors the compute of a limit expression fails with
LimitErrors == [kind : {"Err"}, int : {1, 2}, text : {<<>>}]

\* the decimal digit d
Char(d) == <<"0", "1", "2", "3", "4", "5", "6", "7", "8", "9">>[d + 1]

\* format!("{}", n) of an integer that is not negative
NatString(n) == [i \in 1..Len(Digits(n)) |-> Char(Digits(n)[i])]

\* format!("{}", v) of an integer
IntString(v) == IF v < 0 THEN <<"-">> \o NatString(-v) ELSE NatString(v)

\* Value::as_string: the content of a string, and of any other value what
\* Display writes; a Float is held in tenths
as_string(v) ==
  CASE v.kind = "Strand" -> v.text
    [] v.kind = "Int" -> IntString(v.int)
    [] v.kind = "Float" -> NatString(v.int \div 10) \o <<".">> \o NatString(v.int % 10)
    [] v.kind = "Bool" -> IF v.int = 1 THEN <<"t", "r", "u", "e">> ELSE <<"f", "a", "l", "s", "e">>
    [] v.kind = "None" -> <<"N", "O", "N", "E">>
    [] OTHER -> <<"N", "U", "L", "L">>

\* v as usize, for v >= 0: the low bits of v that usize holds
as_usize(v, wide) == IF wide THEN v ELSE v % Word

\* what process returns when self.0.compute has returned c
Limit_process(c, wide) ==
  IF c.kind = "Int" /\ c.int >= 0
    THEN [tag |-> "Ok", n |-> as_usize(c.int, wide), value |-> <<>>, e |-> c]
  ELSE IF c.kind # "Err"
    THEN [tag |-> "InvalidLimit", n |-> None, value |-> as_string(c), e |-> c]
  ELSE [tag |-> "Err", n |-> None, value |-> <<>>, e |-> c]

InitLimit ==
  /\ Still
  /\ run \in [unit : {"limit"}, computed : LimitValues \cup LimitErrors, wide : BOOLEAN,
               pc : {"call"}, ret : {[tag |-> "none", n |-> None, value |-> <<>>,
                                      e |-> [kind |-> "None", int |-> 0, text |-> <<>>]]}]

\* self.process(ctx, opt, txn, doc)
LimitProcess ==
  /\ run.unit = "limit" /\ run.pc = "call"
  /\ run' = [run EXCEPT !.pc = "done", !.ret = Limit_process(run.computed, run.wide)]
  /\ UNCHANGED tree

NextLimit == LimitProcess

SpecLimit == InitLimit /\ [][NextLimit]_vars

\* C38: process returns Ok(n) exactly when the expression computes to the
\* integer n >= 0; for any other computed value it returns InvalidLimit with
\* the string form of that value, and the error of the compute as it is.
C38_LimitProcess ==
  (run.unit = "limit" /\ run.pc = "done") =>
     LET c == run.computed IN
     /\ (c.kind = "Int" /\ c.int >= 0) => (run.ret.tag = "Ok" /\ run.ret.n = c.int)
     /\ run.ret.tag = "Ok" => (c.kind = "Int" /\ c.int >= 0 /\ run.ret.n = c.int)
     /\ (c.kind # "Err" /\ ~(c.kind = "Int" /\ c.int >= 0)) =>
          (run.ret.tag = "InvalidLimit" /\ run.ret.value = as_string(c))
     /\ c.kind = "Err" => (run.ret.tag = "Err" /\ run.ret.e = c)

----------------------------------------------------------------------------
(* The handlers of /key/:table and /key/:table/:key (src/net/key.rs).  A    *)
(* request is given by its handler, its Accept header as the extractor      *)
(* hands it over (none when the header is missing or not understood), its   *)
(* body and what db.execute will return.  executed lists the statements     *)
(* the datastore was given, log the steps of the handler: "body" for the    *)
(* conversion and parsing of the body, "execute" for db.execute, which is   *)
(* awaited, and "accept" for the match on the Accept header.                *)

\* the handlers and the statement each one executes
KeyHandlers ==
  {"select_all", "create_all", "update_all", "modify_all", "delete_all",
   "select_one", "create_one", "update_one", "modify_one", "delete_one"}

\* the handlers that take the body of the request
WithBody == {"create_all", "update_all", "modify_all", "create_one", "update_one", "modify_one"}

\* let sql = ...
Sql(handler) ==
  CASE handler = "select_all" -> "SELECT * FROM type::table($table) LIMIT {l} START {s}"
    [] handler = "create_all" -> "CREATE type::table($table) CONTENT $data"
    [] handler = "update_all" -> "UPDATE type::table($table) CONTENT $data"
    [] handler = "modify_all" -> "UPDATE type::table($table) MERGE $data"
    [] handler = "delete_all" -> "DELETE type::table($table) RETURN BEFORE"
    [] handler = "select_one" -> "SELECT * FROM type::thing($table, $id)"
    [] handler = "create_one" -> "CREATE type::thing($table, $id) CONTENT $data"
    [] handler = "update_one" -> "UPDATE type::thing($table, $id) CONTENT $data"
    [] handler = "modify_one" -> "UPDATE type::thing($table, $id) MERGE $data"
    [] OTHER -> "DELETE type::thing($table, $id) RETURN BEFORE"

\* the Accept values the handlers answer
Supported == {"ApplicationJson", "ApplicationCbor", "ApplicationPack", "Surrealdb"}

\* maybe_output: a supported value, another value of Accept, or None
Accepts == Supported \cup {"TextPlain", "ApplicationOctetStream", "None"}

\* the bodies: one that is not UTF-8, one that is no value, and a value
Bodies == {"not utf8", "not a value", "value"}

\* the response for a supported Accept value
Output(accept) ==
  CASE accept = "ApplicationJson" -> "json"
    [] accept = "ApplicationCbor" -> "cbor"
    [] accept = "ApplicationPack" -> "pack"
    [] OTHER -> "full"

InitKey ==
  /\ Still
  /\ run \in [unit : {"key"}, handler : KeyHandlers, accept : Accepts, body : Bodies \cup {"no body"},
               db : {"Ok", "Err"}, pc : {"start"}, executed : {<<>>}, log : {<<>>},
               ret : {"none"}]
  /\ run.body = "no body" <=> run.handler \notin WithBody

\* a handler that looks at the Accept header when it starts
KeyBody_accept_first ==
  /\ run.unit = "key" /\ run.pc = "start"
  /\ run' = IF run.accept \notin Supported
              THEN [run EXCEPT !.log = Append(@, "accept"), !.pc = "done", !.ret = "InvalidType"]
            ELSE IF run.handler \notin WithBody THEN [run EXCEPT !.pc = "execute"]
            ELSE IF run.body = "not utf8"
              THEN [run EXCEPT !.log = Append(@, "body"), !.pc = "done", !.ret = "bytes_to_utf8"]
            ELSE IF run.body = "not a value"
              THEN [run EXCEPT !.log = Append(@, "body"), !.pc = "done", !.ret = "Request"]
            ELSE [run EXCEPT !.log = Append(@, "body"), !.pc = "execute"]
  /\ UNCHANGED tree

\* up to db.execute: bytes_to_utf8(&body)? and surrealdb::sql::value(data)
\* in the handlers that take a body
KeyBody ==
  /\ run.unit = "key" /\ run.pc = "start"
  /\ run' = IF run.handler \notin WithBody THEN [run EXCEPT !.pc = "execute"]
            ELSE IF run.body = "not utf8"
              THEN [run EXCEPT !.log = Append(@, "body"), !.pc = "done", !.ret = "bytes_to_utf8"]
            ELSE IF run.body = "not a value"
              THEN [run EXCEPT !.log = Append(@, "body"), !.pc = "done", !.ret = "Request"]
            ELSE [run EXCEPT !.log = Append(@, "body"), !.pc = "execute"]
  /\ UNCHANGED tree

\* db.execute(sql, &session, Some(vars)).await
KeyExecute ==
  /\ run.unit = "key" /\ run.pc = "execute"
  /\ run' = [run EXCEPT !.log = Append(@, "execute"), !.pc = "respond",
                        !.executed = Append(@, Sql(run.handler))]
  /\ UNCHANGED tree

\* the match on what db.execute returned and, for Ok, on maybe_output
KeyRespond ==
  /\ run.unit = "key" /\ run.pc = "respond"
  /\ run' = IF run.db = "Err" THEN [run EXCEPT !.pc = "done", !.ret = "Db"]
            ELSE [run EXCEPT !.log = Append(@, "accept"), !.pc = "done",
                             !.ret = IF run.accept \in Supported THEN Output(run.accept)
                                     ELSE "InvalidType"]
  /\ UNCHANGED tree

NextKey == KeyBody \/ KeyExecute \/ KeyRespond

SpecKey == InitKey /\ [][NextKey]_vars

\* C39: a /key handler looks at the Accept header only when db.execute has
\* returned: a request without a supported Accept value whose statement was
\* executed (db.execute returned Ok) is answered InvalidType, and only such
\* a request is, the statement of the handler having been given to the
\* datastore once; a body that is no value is answered Request, and no
\* body that fails to convert or to parse has a statement executed.
C39_ExecutesBeforeAccept ==
  run.unit = "key" =>
    /\ \A k \in 1..Len(run.log) :
         run.log[k] = "accept" => (k > 1 /\ run.log[k - 1] = "execute")
    /\ run.ret = "InvalidType" =>
         /\ run.accept \notin Supported /\ run.db = "Ok"
         /\ run.executed = <<Sql(run.handler)>>
    /\ (run.pc = "done" /\ run.accept \notin Supported /\ run.db = "Ok"
          /\ run.body \in {"no body", "value"}) => run.ret = "InvalidType"
    /\ (run.pc = "done" /\ run.body = "not a value") =>
         (run.ret = "Request" /\ run.executed = <<>>)
    /\ (run.pc = "done" /\ run.body = "not utf8") =>
         (run.ret = "bytes_to_utf8" /\ run.executed = <<>>)

\* a DELETE and a CREATE were executed for requests without Accept header,
\* which were then answered InvalidType
C39_Witness ==
  /\ run.unit = "key" /\ run.pc = "done" /\ run.ret = "InvalidType" /\ run.accept = "None"
  /\ run.handler \in {"delete_all", "create_one"}
  /\ Len(run.executed) = 1

====
